---- MODULE Spec2Model ----
(***************************************************************************)
(* Model of the Scale scheduler core:                                      *)
(*   - scheduler/resources/manager.py  (ResourceManager, two locks)        *)
(*   - scheduler/scale_scheduler.py    (ScaleScheduler Mesos callbacks)    *)
(* Collaborators whose source is not part of the repository snapshot       *)
(* (AgentResources, NodeResources, the reconciliation manager, the running *)
(* job execution manager, ...) are modelled from their documented          *)
(* interface.                                                              *)
(***************************************************************************)
EXTENDS Integers, Sequences, FiniteSets, TLC

(***************************************************************************)
(* Bounds of the model                                                     *)
(***************************************************************************)
\* Total number of ResourceManager calls begun in one behaviour, when the
\* callers run concurrently and when they run one call at a time
MaxCalls == 3
MaxSerialCalls == 4
\* Number of scheduler callbacks delivered in one behaviour
MaxCallbacks == 3
\* The minutes the clock may advance to
MaxClock == 6

\* Threads calling into the ResourceManager (the callback thread and a worker)
Threads == {"T1", "T2"}

None == "None"

\* Optional values: << >> is Python's None, <<v>> is the value v
Nothing == << >>
Some(v) == << v >>

(***************************************************************************)
(* NodeResources (job.resources): a vector of cpus / mem / disk            *)
(***************************************************************************)
NodeResources(c, m, d) == [cpus |-> c, mem |-> m, disk |-> d]

ZeroResources == NodeResources(0, 0, 0)

ResAdd(a, b) ==
    [cpus |-> a.cpus + b.cpus, mem |-> a.mem + b.mem, disk |-> a.disk + b.disk]

Min2(x, y) == IF x <= y THEN x ELSE y
Max2(x, y) == IF x >= y THEN x ELSE y

ResMin(a, b) ==
    [cpus |-> Min2(a.cpus, b.cpus), mem |-> Min2(a.mem, b.mem),
     disk |-> Min2(a.disk, b.disk)]

ResMax(a, b) ==
    [cpus |-> Max2(a.cpus, b.cpus), mem |-> Max2(a.mem, b.mem),
     disk |-> Max2(a.disk, b.disk)]

(***************************************************************************)
(* Inputs: agents, offers and tasks the callers may pass in                *)
(***************************************************************************)
AgentIds == {"a1", "a2"}

OfferIds == {"o1", "o2"}

\* ResourceOffer(offer_id, agent_id, resources).  "o1" is offered with two
\* different contents so that a duplicate id can overwrite a pending offer.
OfferPool ==
    { [id |-> "o1", agent_id |-> "a1", resources |-> NodeResources(4, 1024, 0)],
      [id |-> "o1", agent_id |-> "a2", resources |-> NodeResources(2, 512, 10)],
      [id |-> "o2", agent_id |-> "a1", resources |-> NodeResources(1, 256, 5)] }

\* Task (scheduling view): task id, agent id and the resources it consumes
TaskPool ==
    { [id |-> "t1", agent_id |-> "a1", resources |-> NodeResources(2, 512, 0)],
      [id |-> "t2", agent_id |-> "a2", resources |-> NodeResources(1, 128, 1)] }

\* The batches add_new_offers() is called with (lists, order matters)
\* (single offers, one id twice, and offers of two agents)
OfferBatches ==
    { <<o>> : o \in OfferPool } \cup
    { <<o, p>> : o \in { q \in OfferPool : q.agent_id = "a1" },
                 p \in { q \in OfferPool : q.agent_id = "a2" } }

\* The id lists remove_offers() is called with
OfferIdLists == { {"o1"}, {"o1", "o2"} }

\* The task lists refresh_agent_resources() is called with
TaskLists == { {}, TaskPool }

\* The agent ids of status_dict['nodes'] generate_status_json() is called with
NodeLists == { {"a1"}, AgentIds }

EmptyMap == [x \in {} |-> None]

\* dict update d[k] = v
Put(d, k, v) == [x \in (DOMAIN d) \cup {k} |-> IF x = k THEN v ELSE d[x]]

\* dict with the keys in ks deleted
Without(d, ks) == [x \in (DOMAIN d) \ ks |-> d[x]]

RECURSIVE SumOffers(_)
SumOffers(d) ==
    IF DOMAIN d = {} THEN ZeroResources
    ELSE LET k == CHOOSE x \in DOMAIN d : TRUE
         IN  ResAdd(d[k].offer.resources, SumOffers(Without(d, {k})))

RECURSIVE SumTasks(_)
SumTasks(ts) ==
    IF ts = {} THEN ZeroResources
    ELSE LET t == CHOOSE x \in ts : TRUE
         IN  ResAdd(t.resources, SumTasks(ts \ {t}))

(***************************************************************************)
(* AgentResources (scheduler.resources.agent): one agent's ledger          *)
(***************************************************************************)
\* AgentResources(agent_id)
AgentResources(a) ==
    [agent_id |-> a, offers |-> EmptyMap, offered |-> ZeroResources,
     running |-> ZeroResources,
     watermark |-> [min |-> ZeroResources, max |-> ZeroResources],
     shortage |-> Nothing]

\* Mutant: the given offers and tasks are added to the totals kept so far
refresh_resources_Incremental(ar, offers, tasks) ==
    [ar EXCEPT !.offers = offers,
               !.offered = ResAdd(@, SumOffers(offers)),
               !.running = ResAdd(@, SumTasks(tasks))]

\* AgentResources.refresh_resources(offers, tasks): full replace of offered and
\* running; the watermark only widens to include the new total
refresh_resources(ar, offers, tasks) ==
    LET offered == SumOffers(offers)
        running == SumTasks(tasks)
        total == ResAdd(running, offered)
    IN  [ar EXCEPT !.offers = offers, !.offered = offered, !.running = running,
                   !.watermark = [min |-> ResMin(@.min, total),
                                  max |-> ResMax(@.max, total)]]

\* AgentResources.reset_watermark()
reset_watermark(ar) ==
    LET total == ResAdd(ar.running, ar.offered)
    IN  [ar EXCEPT !.watermark = [min |-> total, max |-> total]]

\* AgentResources.remove_offers(offer_ids)
agent_remove_offers(ar, ids) ==
    LET left == Without(ar.offers, ids)
    IN  [ar EXCEPT !.offers = left, !.offered = SumOffers(left)]

\* AgentResources.set_shortage(resources=None)
set_shortage(ar, res) == [ar EXCEPT !.shortage = res]

\* AgentResources.generate_status_json(node_dict, ...): the node's entry
agent_status_json(ar) ==
    [running |-> ar.running, offered |-> ar.offered, watermark |-> ar.watermark.max]

(***************************************************************************)
(* ScaleScheduler: state of the collaborators the callbacks drive          *)
(***************************************************************************)
JobExeIds == {"e1", "e2"}

\* CLEANUP_TASK_ID_PREFIX
CLEANUP_TASK_ID_PREFIX == "scale_cleanup"

\* Task ids: a prefix and the rest of the id
JobTaskId(e) == << "scale", e >>
CleanupTaskId(a) == << CLEANUP_TASK_ID_PREFIX, a >>

\* task_id.startswith(CLEANUP_TASK_ID_PREFIX)
IsCleanupTaskId(tid) == tid[1] = CLEANUP_TASK_ID_PREFIX

\* JobExecution.get_job_exe_id(task_id)
get_job_exe_id(tid) == tid[2]

TaskIds == { JobTaskId(e) : e \in JobExeIds } \cup { CleanupTaskId("a1") }

\* mesos_pb2 task states
TASK_STAGING == "TASK_STAGING"
TASK_RUNNING == "TASK_RUNNING"
TASK_FINISHED == "TASK_FINISHED"
TASK_LOST == "TASK_LOST"
TASK_ERROR == "TASK_ERROR"
TASK_FAILED == "TASK_FAILED"
TASK_KILLED == "TASK_KILLED"

TaskStates ==
    { TASK_STAGING, TASK_RUNNING, TASK_FINISHED, TASK_LOST, TASK_ERROR,
      TASK_FAILED, TASK_KILLED }

\* The exit codes a status may carry: none, or a number
ExitCodes == { Nothing, Some(3) }

\* mesos_pb2.TaskStatus as the callback reads it
TaskStatus(tid, state, code) == [task_id |-> tid, state |-> state, exit_code |-> code]

\* utils.parse_exit_code(status): the exit code of the status, None if it has none
parse_exit_code(status) == status.exit_code

\* The node registry's nodes by agent id
NodeOf(a) == [id |-> << "node", a >>, hostname |-> << "host", a >>]

\* States of a RunningJobExecution
ExeTerminal == { "finished", "failed", "lost" }

\* RunningJobExecution as the scheduling thread puts it into the registry
RunningJobExecution(e, a) ==
    [id |-> e, node_id |-> NodeOf(a).id, state |-> "scheduled",
     current_task |-> Some(JobTaskId(e))]

\* RunningJobExecution.is_finished()
is_finished(exe) == exe.state \in ExeTerminal

\* The place where a collaborator raises during a callback (site "none": no
\* failure), the kind of exception, and for calls on an execution, which one
NoFault == [site |-> "none", kind |-> "none", exe |-> "none"]

ExceptionKinds == { "DatabaseError", "Exception" }

\* One collaborator call of a callback's trace: the function and its arguments
Called(fn) ==
    [fn |-> fn, task |-> << >>, exe |-> "none", agent |-> "none", state |-> "none",
     code |-> Nothing, context |-> << >>, error |-> "none", tasks |-> {},
     driver |-> "none", agent_ids |-> {}, offers |-> << >>]

(***************************************************************************)
(* State                                                                   *)
(***************************************************************************)
VARIABLES
    agent_resources,        \* ResourceManager._agent_resources {agent id: AgentResources}
    agent_resources_lock,   \* holder of ResourceManager._agent_resources_lock, or None
    last_watermark_reset,   \* ResourceManager._last_watermark_reset
    new_offers,             \* ResourceManager._new_offers {offer id: ResourceOffer}
    new_offers_lock,        \* holder of ResourceManager._new_offers_lock, or None
    clock,                  \* django.utils.timezone.now(), in minutes
    pc,                     \* position of every thread inside its current call
    frame,                  \* arguments and locals of every thread's current call
    ret,                    \* how every thread's last call ended
    status_dict,            \* the dict the last generate_status_json() filled in
    n_calls,                \* calls begun so far
    n_cycles,               \* history: buffer swaps (refresh cycles) done so far
    fate,                   \* history: what became of every stored ResourceOffer object
    lost_returned,          \* history: agents whose lost_agent() returned, no offer added since
    status_lost,            \* history: lost_returned when status_dict was generated
    serial                  \* the callers run one call at a time (no concurrency)

rm_vars ==
    << agent_resources, agent_resources_lock, last_watermark_reset, new_offers,
       new_offers_lock, clock, pc, frame, ret, status_dict, n_calls, n_cycles,
       fate, lost_returned, status_lost, serial >>

VARIABLES
    recon_task_ids,     \* recon_mgr: the task ids to reconcile
    running_job_exes,   \* running_job_mgr: {job_exe id: RunningJobExecution}
    cleanup_job_exes,   \* cleanup_mgr: the executions given to add_job_execution()
    job_exe_db,         \* durable storage: {job_exe id: [status, error]}
    node_agents,        \* node_mgr: the agent ids with a registered node
    drivers,            \* the driver held by the scheduler, the threads and recon_mgr
    callback            \* history: the last callback, its trace and how it ended

sched_vars ==
    << recon_task_ids, running_job_exes, cleanup_job_exes, job_exe_db,
       node_agents, drivers, callback >>

VARIABLES
    n_callbacks,        \* callbacks delivered so far
    mesos_tasks,        \* the cluster manager: {task id: state} of the launched tasks
    in_flight,          \* the cluster manager: status updates sent and not yet delivered
    recon_round,        \* the reconciliation thread: the parity of its rounds so far
    registration        \* registered() step by step beside the scheduling worker

env_vars == << n_callbacks, mesos_tasks, in_flight, recon_round, registration >>

vars == << rm_vars, sched_vars, env_vars >>

NoFrame ==
    [offers |-> << >>, offer_ids |-> {}, agent_id |-> None, tasks |-> {},
     new_offers |-> EmptyMap, agent_shortages |-> EmptyMap, nodes |-> {},
     when |-> 0, cycle |-> 0, mark |-> 0]

InitManager ==
    /\ agent_resources = EmptyMap
    /\ agent_resources_lock = None
    /\ last_watermark_reset = Nothing
    /\ new_offers = EmptyMap
    /\ new_offers_lock = None
    /\ clock = 0
    /\ pc = [t \in Threads |-> "idle"]
    /\ frame = [t \in Threads |-> NoFrame]
    /\ ret = [t \in Threads |-> None]
    /\ status_dict = Nothing
    /\ n_calls = 0
    /\ n_cycles = 0
    /\ fate = << >>
    /\ lost_returned = {}
    /\ status_lost = {}

NoCallback ==
    [name |-> "none", raised |-> "none", calls |-> << >>, fault |-> NoFault,
     status |-> Nothing, agent_id |-> None, known |-> {}, recon_before |-> {},
     on_node |-> {}, node_known |-> FALSE, diverged |-> FALSE, offers |-> << >>]

\* self._driver = None; the background threads do not exist yet
NoDrivers == [controller |-> None, db_sync |-> None, recon |-> None, scheduling |-> None]

\* The drivers the cluster manager hands to registered() and reregistered()
Drivers == { "d1", "d2" }

InitScheduler ==
    /\ drivers = NoDrivers
    /\ recon_task_ids = {}
    /\ running_job_exes = EmptyMap
    /\ cleanup_job_exes = {}
    /\ job_exe_db = EmptyMap
    /\ node_agents = {}
    /\ callback = NoCallback

\* registered() has not begun: its position, the executions its query returned
\* that are still to be looked up, the task ids it has collected, the launch
\* the scheduling worker is in the course of, and (history) the executions
\* the worker has launched and those given to handle_job_failure
NoRegistration ==
    [pc |-> "none", todo |-> << >>, task_ids |-> {}, launching |-> None,
     launched |-> {}, failed |-> {}]

InitEnvironment ==
    /\ n_callbacks = 0
    /\ mesos_tasks = EmptyMap
    /\ in_flight = {}
    /\ recon_round = 0
    /\ registration = NoRegistration

\* Concurrent callers (any thread may call any operation)
Init == InitManager /\ InitScheduler /\ InitEnvironment /\ serial = FALSE

\* One call at a time: a single thread makes all the calls
InitSerial == InitManager /\ InitScheduler /\ InitEnvironment /\ serial = TRUE

\* A call may begin: the thread is idle and the budget of calls is not spent
CanCall(t) ==
    /\ pc[t] = "idle"
    /\ n_calls < (IF serial THEN MaxSerialCalls ELSE MaxCalls)
    /\ serial => t = "T1"

Goto(t, label) == pc' = [pc EXCEPT ![t] = label]

Return(t, how) ==
    /\ pc' = [pc EXCEPT ![t] = "idle"]
    /\ frame' = [frame EXCEPT ![t] = NoFrame]
    /\ ret' = [ret EXCEPT ![t] = how]

\* Objects (by identity) that sit in the pending buffer / in dict d
ObjsOf(d) == { d[k].obj : k \in DOMAIN d }


\* History bookkeeping: the objects of buffer "before" that are gone from "after"
\* have been dropped for the reason given (removed / superseded)
Dropped(before, after) == ObjsOf(before) \ ObjsOf(after)

MarkRemoved(f, objs) ==
    [i \in DOMAIN f |-> IF i \in objs THEN [f[i] EXCEPT !.removed = TRUE] ELSE f[i]]

MarkSuperseded(f, objs) ==
    [i \in DOMAIN f |-> IF i \in objs THEN [f[i] EXCEPT !.superseded = TRUE] ELSE f[i]]

MarkHanded(f, objs) ==
    [i \in DOMAIN f |-> IF i \in objs THEN [f[i] EXCEPT !.cycles = @ + 1] ELSE f[i]]

\* the objects that a remove_offers() call which has returned was to remove
MarkRescinded(f, objs) ==
    [i \in DOMAIN f |-> IF i \in objs THEN [f[i] EXCEPT !.rescinded = TRUE] ELSE f[i]]

\* The objects stored before a remove_offers() call began that have one of
\* the ids of the call
Rescinded(f, mark, ids) == { i \in 1..mark : f[i].id \in ids }

NewFate(o, born) ==
    [id |-> o.id, agent_id |-> o.agent_id, born |-> born, cycles |-> 0,
     removed |-> FALSE, superseded |-> FALSE, rescinded |-> FALSE]

(***************************************************************************)
(* ResourceManager.add_new_offers(offers)                                  *)
(***************************************************************************)
\* Mutant: an offer whose id is already in the buffer is not stored
RECURSIVE StoreOffers_FirstWins(_, _, _)
StoreOffers_FirstWins(buf, offers, base) ==
    IF offers = << >> THEN buf
    ELSE LET o == Head(offers)
         IN  StoreOffers_FirstWins(IF o.id \in DOMAIN buf THEN buf
                                   ELSE Put(buf, o.id, [offer |-> o, obj |-> base + 1]),
                                   Tail(offers), base + 1)

\* for offer in offers: self._new_offers[offer.id] = offer
\* (the i-th offer of the list is the object number base + i)
RECURSIVE StoreOffers(_, _, _)
StoreOffers(buf, offers, base) ==
    IF offers = << >> THEN buf
    ELSE LET o == Head(offers)
         IN  StoreOffers(Put(buf, o.id, [offer |-> o, obj |-> base + 1]),
                         Tail(offers), base + 1)

\* with self._new_offers_lock:
add_new_offers_lock(t, offers) ==
    /\ CanCall(t)
    /\ new_offers_lock = None
    /\ new_offers_lock' = t
    /\ frame' = [frame EXCEPT ![t] = [NoFrame EXCEPT !.offers = offers]]
    /\ Goto(t, "add_new_offers")
    /\ n_calls' = n_calls + 1
    /\ UNCHANGED << sched_vars, env_vars,
                    agent_resources, agent_resources_lock, last_watermark_reset,
                    new_offers, clock, ret, status_dict, n_cycles, fate,
                    lost_returned, status_lost, serial >>

\* the loop body, then the lock is released and the call returns
add_new_offers_store(t) ==
    /\ pc[t] = "add_new_offers"
    /\ new_offers_lock = t
    /\ LET offers == frame[t].offers
           base == Len(fate)
           buf == StoreOffers(new_offers, offers, base)
           born == [i \in 1..Len(offers) |-> NewFate(offers[i], n_cycles)]
           all == fate \o born
       IN  /\ new_offers' = buf
           /\ fate' = MarkSuperseded(all, (ObjsOf(new_offers) \cup
                                           (base + 1)..(base + Len(offers)))
                                          \ ObjsOf(buf))
           /\ lost_returned' =
                  lost_returned \ { offers[i].agent_id : i \in 1..Len(offers) }
    /\ new_offers_lock' = None
    /\ Return(t, "ok")
    /\ UNCHANGED << sched_vars, env_vars,
                    agent_resources, agent_resources_lock, last_watermark_reset,
                    clock, status_dict, n_calls, n_cycles, status_lost, serial >>

\* History: an offer of agent a was stored after the first "mark" objects
OfferedSince(a, mark) ==
    \E i \in DOMAIN fate : i > mark /\ fate[i].agent_id = a

(***************************************************************************)
(* ResourceManager.lost_agent(agent_id)                                    *)
(***************************************************************************)
\* with self._new_offers_lock:
lost_agent_lock_offers(t, a) ==
    /\ CanCall(t)
    /\ new_offers_lock = None
    /\ new_offers_lock' = t
    /\ frame' = [frame EXCEPT ![t] = [NoFrame EXCEPT !.agent_id = a,
                                                      !.mark = Len(fate)]]
    /\ Goto(t, "lost_agent_offers")
    /\ n_calls' = n_calls + 1
    /\ UNCHANGED << sched_vars, env_vars,
                    agent_resources, agent_resources_lock, last_watermark_reset,
                    new_offers, clock, ret, status_dict, n_cycles, fate,
                    lost_returned, status_lost, serial >>

\* for offer in self._new_offers.values(): if offer.agent_id == agent_id: del ...
PurgeAgentOffers(buf, a) ==
    [k \in { x \in DOMAIN buf : buf[x].offer.agent_id # a } |-> buf[k]]

\* Mutant: the agent lock is taken inside the offer lock's block
lost_agent_purge_nested(t) ==
    /\ pc[t] = "lost_agent_offers"
    /\ new_offers_lock = t
    /\ LET buf == PurgeAgentOffers(new_offers, frame[t].agent_id)
       IN  /\ new_offers' = buf
           /\ fate' = MarkRemoved(fate, Dropped(new_offers, buf))
    /\ Goto(t, "lost_agent_wait")
    /\ UNCHANGED << sched_vars, env_vars,
                    agent_resources, agent_resources_lock, last_watermark_reset,
                    new_offers_lock, clock, frame, ret, status_dict, n_calls,
                    n_cycles, lost_returned, status_lost, serial >>

\* the purge, then the offer lock is released
lost_agent_purge(t) ==
    /\ pc[t] = "lost_agent_offers"
    /\ new_offers_lock = t
    /\ LET buf == PurgeAgentOffers(new_offers, frame[t].agent_id)
       IN  /\ new_offers' = buf
           /\ fate' = MarkRemoved(fate, Dropped(new_offers, buf))
    /\ new_offers_lock' = None
    /\ Goto(t, "lost_agent_wait")
    /\ UNCHANGED << sched_vars, env_vars,
                    agent_resources, agent_resources_lock, last_watermark_reset,
                    clock, frame, ret, status_dict, n_calls, n_cycles,
                    lost_returned, status_lost, serial >>

\* with self._agent_resources_lock:
lost_agent_lock_agents(t) ==
    /\ pc[t] = "lost_agent_wait"
    /\ agent_resources_lock = None
    /\ agent_resources_lock' = t
    /\ Goto(t, "lost_agent_agents")
    /\ UNCHANGED << sched_vars, env_vars,
                    agent_resources, last_watermark_reset, new_offers,
                    new_offers_lock, clock, frame, ret, status_dict, n_calls,
                    n_cycles, fate, lost_returned, status_lost, serial >>

\* Mutant: the lost agent is left in the map
DeleteAgent_Kept(agents, a) == agents

\* if agent_id in self._agent_resources: del self._agent_resources[agent_id]
DeleteAgent(agents, a) == Without(agents, {a})

\* the deletion, then the agent lock is released and the call returns
lost_agent_delete(t) ==
    /\ pc[t] = "lost_agent_agents"
    /\ agent_resources_lock = t
    /\ agent_resources' = DeleteAgent(agent_resources, frame[t].agent_id)
    /\ agent_resources_lock' = None
    /\ lost_returned' =
           IF OfferedSince(frame[t].agent_id, frame[t].mark) THEN lost_returned
           ELSE lost_returned \cup {frame[t].agent_id}
    /\ Return(t, "ok")
    /\ UNCHANGED << sched_vars, env_vars,
                    last_watermark_reset, new_offers, new_offers_lock, clock,
                    status_dict, n_calls, n_cycles, fate, status_lost, serial >>


(***************************************************************************)
(* ResourceManager.remove_offers(offer_ids)                                *)
(***************************************************************************)
\* with self._new_offers_lock:
remove_offers_lock_offers(t, ids) ==
    /\ CanCall(t)
    /\ new_offers_lock = None
    /\ new_offers_lock' = t
    /\ frame' = [frame EXCEPT ![t] = [NoFrame EXCEPT !.offer_ids = ids,
                                                      !.mark = Len(fate)]]
    /\ Goto(t, "remove_offers_offers")
    /\ n_calls' = n_calls + 1
    /\ UNCHANGED << sched_vars, env_vars,
                    agent_resources, agent_resources_lock, last_watermark_reset,
                    new_offers, clock, ret, status_dict, n_cycles, fate,
                    lost_returned, status_lost, serial >>

\* for offer_id in offer_ids: if offer_id in self._new_offers: del ...
\* then the offer lock is released
remove_offers_pending(t) ==
    /\ pc[t] = "remove_offers_offers"
    /\ new_offers_lock = t
    /\ LET buf == Without(new_offers, frame[t].offer_ids)
       IN  /\ new_offers' = buf
           /\ fate' = MarkRemoved(fate, Dropped(new_offers, buf))
    /\ new_offers_lock' = None
    /\ Goto(t, "remove_offers_wait")
    /\ UNCHANGED << sched_vars, env_vars,
                    agent_resources, agent_resources_lock, last_watermark_reset,
                    clock, frame, ret, status_dict, n_calls, n_cycles,
                    lost_returned, status_lost, serial >>

\* with self._agent_resources_lock:
remove_offers_lock_agents(t) ==
    /\ pc[t] = "remove_offers_wait"
    /\ agent_resources_lock = None
    /\ agent_resources_lock' = t
    /\ Goto(t, "remove_offers_agents")
    /\ UNCHANGED << sched_vars, env_vars,
                    agent_resources, last_watermark_reset, new_offers,
                    new_offers_lock, clock, frame, ret, status_dict, n_calls,
                    n_cycles, fate, lost_returned, status_lost, serial >>

\* Mutant: the agents keep the offers they have absorbed
remove_offers_agents_Skip(t) ==
    /\ pc[t] = "remove_offers_agents"
    /\ agent_resources_lock = t
    /\ fate' = MarkRescinded(fate, Rescinded(fate, frame[t].mark, frame[t].offer_ids))
    /\ agent_resources_lock' = None
    /\ Return(t, "ok")
    /\ UNCHANGED << sched_vars, env_vars, agent_resources,
                    last_watermark_reset, new_offers, new_offers_lock, clock,
                    status_dict, n_calls, n_cycles, lost_returned, status_lost, serial >>

\* for agent_resources in self._agent_resources.values(): .remove_offers(offer_ids)
\* then the agent lock is released and the call returns
remove_offers_agents(t) ==
    /\ pc[t] = "remove_offers_agents"
    /\ agent_resources_lock = t
    /\ agent_resources' =
           [a \in DOMAIN agent_resources |->
               agent_remove_offers(agent_resources[a], frame[t].offer_ids)]
    /\ fate' = MarkRescinded(fate, Rescinded(fate, frame[t].mark, frame[t].offer_ids))
    /\ agent_resources_lock' = None
    /\ Return(t, "ok")
    /\ UNCHANGED << sched_vars, env_vars,
                    last_watermark_reset, new_offers, new_offers_lock, clock,
                    status_dict, n_calls, n_cycles, lost_returned, status_lost, serial >>

(***************************************************************************)
(* ResourceManager.refresh_agent_resources(tasks)                          *)
(***************************************************************************)
\* Amount of time between rolling watermark resets (minutes)
WATERMARK_RESET_PERIOD == 5

\* with self._new_offers_lock:
refresh_lock_offers(t, tasks) ==
    /\ CanCall(t)
    /\ new_offers_lock = None
    /\ new_offers_lock' = t
    /\ frame' = [frame EXCEPT ![t] = [NoFrame EXCEPT !.tasks = tasks]]
    /\ Goto(t, "refresh_offers")
    /\ n_calls' = n_calls + 1
    /\ UNCHANGED << sched_vars, env_vars,
                    agent_resources, agent_resources_lock, last_watermark_reset,
                    new_offers, clock, ret, status_dict, n_cycles, fate,
                    lost_returned, status_lost, serial >>

\* new_offers = self._new_offers
SwapTaken(buf) == buf

\* Mutant: the pending buffer is not replaced by an empty one
SwapLeft_NotCleared(buf) == buf

\* self._new_offers = {}
SwapLeft(buf) == EmptyMap

\* the swap, then the offer lock is released; the grouping by agent id works on
\* locals only; when = now()
refresh_swap(t) ==
    /\ pc[t] = "refresh_offers"
    /\ new_offers_lock = t
    /\ frame' = [frame EXCEPT ![t].new_offers = SwapTaken(new_offers),
                              ![t].when = clock,
                              ![t].cycle = n_cycles + 1]
    /\ new_offers' = SwapLeft(new_offers)
    /\ n_cycles' = n_cycles + 1
    /\ fate' = MarkHanded(fate, ObjsOf(SwapTaken(new_offers)))
    /\ new_offers_lock' = None
    /\ Goto(t, "refresh_wait")
    /\ UNCHANGED << sched_vars, env_vars,
                    agent_resources, agent_resources_lock, last_watermark_reset,
                    clock, ret, status_dict, n_calls, lost_returned, status_lost, serial >>

\* with self._agent_resources_lock:
refresh_lock_agents(t) ==
    /\ pc[t] = "refresh_wait"
    /\ agent_resources_lock = None
    /\ agent_resources_lock' = t
    /\ Goto(t, "refresh_agents")
    /\ UNCHANGED << sched_vars, env_vars,
                    agent_resources, last_watermark_reset, new_offers,
                    new_offers_lock, clock, frame, ret, status_dict, n_calls,
                    n_cycles, fate, lost_returned, status_lost, serial >>

\* agent_offers[agent_id]: the offers of the batch that belong to the agent
AgentOffers(batch, a) ==
    [k \in { x \in DOMAIN batch : batch[x].offer.agent_id = a } |-> batch[k]]

\* Mutant: every agent is given all the tasks
AgentTasks_All(tasks, a) == tasks

\* agent_tasks[agent_id]
AgentTasks(tasks, a) == { x \in tasks : x.agent_id = a }

\* Create any new agents if this is their first offer
CreateAgents(agents, batch) ==
    [a \in (DOMAIN agents) \cup { batch[k].offer.agent_id : k \in DOMAIN batch } |->
        IF a \in DOMAIN agents THEN agents[a] ELSE AgentResources(a)]

\* Refresh agents
RefreshAgents(agents, batch, tasks) ==
    [a \in DOMAIN agents |->
        refresh_resources(agents[a], AgentOffers(batch, a), AgentTasks(tasks, a))]

\* when > self._last_watermark_reset + WATERMARK_RESET_PERIOD, which raises
\* TypeError while _last_watermark_reset is None
WatermarkCheck(when, last) ==
    IF last = Nothing THEN "TypeError"
    ELSE IF when > last[1] + WATERMARK_RESET_PERIOD THEN "reset" ELSE "keep"

\* Mutant: the agent lock is released after the refresh of the agents
refresh_agents_Unlock(t) ==
    /\ pc[t] = "refresh_agents"
    /\ agent_resources_lock = t
    /\ LET created == CreateAgents(agent_resources, frame[t].new_offers)
       IN  agent_resources' =
               RefreshAgents(created, frame[t].new_offers, frame[t].tasks)
    /\ agent_resources_lock' = None
    /\ Goto(t, "refresh_watermark")
    /\ UNCHANGED << sched_vars, env_vars,
                    last_watermark_reset, new_offers,
                    new_offers_lock, clock, frame, ret, status_dict, n_calls,
                    n_cycles, fate, lost_returned, status_lost, serial >>

\* creation and refresh of the agents, under the agent lock, which is kept
refresh_agents(t) ==
    /\ pc[t] = "refresh_agents"
    /\ agent_resources_lock = t
    /\ LET created == CreateAgents(agent_resources, frame[t].new_offers)
       IN  agent_resources' =
               RefreshAgents(created, frame[t].new_offers, frame[t].tasks)
    /\ Goto(t, "refresh_watermark")
    /\ UNCHANGED << sched_vars, env_vars,
                    agent_resources_lock, last_watermark_reset, new_offers,
                    new_offers_lock, clock, frame, ret, status_dict, n_calls,
                    n_cycles, fate, lost_returned, status_lost, serial >>

\* the test of the reset period and the watermark reset, still under the
\* agent lock; the lock is released when the block is left, also by the
\* exception
refresh_watermark(t) ==
    /\ pc[t] = "refresh_watermark"
    /\ agent_resources_lock = t
    /\ LET check == WatermarkCheck(frame[t].when, last_watermark_reset)
       IN  /\ agent_resources' =
                  IF check = "reset"
                  THEN [a \in DOMAIN agent_resources |->
                           reset_watermark(agent_resources[a])]
                  ELSE agent_resources
           /\ last_watermark_reset' =
                  IF check = "reset" THEN Some(frame[t].when)
                  ELSE last_watermark_reset
           /\ Return(t, IF check = "TypeError" THEN "TypeError" ELSE "ok")
    /\ agent_resources_lock' = None
    /\ UNCHANGED << sched_vars, env_vars,
                    new_offers, new_offers_lock, clock, status_dict, n_calls,
                    n_cycles, fate, lost_returned, status_lost, serial >>

(***************************************************************************)
(* ResourceManager.set_agent_shortages(agent_shortages)                    *)
(***************************************************************************)
ShortageMaps ==
    { EmptyMap, [a \in {"a1"} |-> Some(NodeResources(1, 0, 0))] }

\* with self._agent_resources_lock:
set_agent_shortages_lock(t, shortages) ==
    /\ CanCall(t)
    /\ agent_resources_lock = None
    /\ agent_resources_lock' = t
    /\ frame' = [frame EXCEPT ![t] = [NoFrame EXCEPT !.agent_shortages = shortages]]
    /\ Goto(t, "set_agent_shortages")
    /\ n_calls' = n_calls + 1
    /\ UNCHANGED << sched_vars, env_vars,
                    agent_resources, last_watermark_reset, new_offers,
                    new_offers_lock, clock, ret, status_dict, n_cycles, fate,
                    lost_returned, status_lost, serial >>

\* the loop over the agents, then the lock is released and the call returns
set_agent_shortages_apply(t) ==
    /\ pc[t] = "set_agent_shortages"
    /\ agent_resources_lock = t
    /\ agent_resources' =
           [a \in DOMAIN agent_resources |->
               IF a \in DOMAIN frame[t].agent_shortages
               THEN set_shortage(agent_resources[a], frame[t].agent_shortages[a])
               ELSE set_shortage(agent_resources[a], Nothing)]
    /\ agent_resources_lock' = None
    /\ Return(t, "ok")
    /\ UNCHANGED << sched_vars, env_vars,
                    last_watermark_reset, new_offers, new_offers_lock, clock,
                    status_dict, n_calls, n_cycles, fate, lost_returned, status_lost, serial >>

(***************************************************************************)
(* ResourceManager.generate_status_json(status_dict)                       *)
(***************************************************************************)
\* with self._agent_resources_lock:
generate_status_json_lock(t, nodes) ==
    /\ CanCall(t)
    /\ agent_resources_lock = None
    /\ agent_resources_lock' = t
    /\ frame' = [frame EXCEPT ![t] = [NoFrame EXCEPT !.nodes = nodes]]
    /\ Goto(t, "generate_status_json")
    /\ n_calls' = n_calls + 1
    /\ UNCHANGED << sched_vars, env_vars,
                    agent_resources, last_watermark_reset, new_offers,
                    new_offers_lock, clock, ret, status_dict, n_cycles, fate,
                    lost_returned, status_lost, serial >>

\* Mutant: every agent the manager tracks is folded
StatusAgents_All(agents, nodes) == DOMAIN agents

\* The agents of status_dict['nodes'] that the manager tracks
StatusAgents(agents, nodes) == { a \in nodes : a \in DOMAIN agents }

RECURSIVE FoldStatus(_, _, _)
FoldStatus(agents, todo, field) ==
    IF todo = {} THEN ZeroResources
    ELSE LET a == CHOOSE x \in todo : TRUE
         IN  ResAdd(agent_status_json(agents[a])[field],
                    FoldStatus(agents, todo \ {a}, field))

\* status_dict after the call: every node's entry and status_dict['resources']
StatusJson(agents, nodes) ==
    [nodes |-> [a \in nodes |->
                   IF a \in DOMAIN agents THEN Some(agent_status_json(agents[a]))
                   ELSE Nothing],
     resources |->
         [running |-> FoldStatus(agents, StatusAgents(agents, nodes), "running"),
          offered |-> FoldStatus(agents, StatusAgents(agents, nodes), "offered"),
          watermark |-> FoldStatus(agents, StatusAgents(agents, nodes), "watermark")]]

\* the fold over the nodes, then the lock is released; the totals are written
\* into status_dict and the call returns
generate_status_json_fold(t) ==
    /\ pc[t] = "generate_status_json"
    /\ agent_resources_lock = t
    /\ status_dict' = Some(StatusJson(agent_resources, frame[t].nodes))
    /\ status_lost' = lost_returned
    /\ agent_resources_lock' = None
    /\ Return(t, "ok")
    /\ UNCHANGED << sched_vars, env_vars,
                    agent_resources, last_watermark_reset, new_offers,
                    new_offers_lock, clock, n_calls, n_cycles, fate,
                    lost_returned, serial >>

(***************************************************************************)
(* ScaleScheduler: the callbacks' view of the collaborators                 *)
(***************************************************************************)
\* The collaborators' state a callback works on, with the trace of its calls and
\* the exception in flight ("none" while there is none)
Ctx ==
    [recon |-> recon_task_ids, exes |-> running_job_exes,
     cleanup |-> cleanup_job_exes, db |-> job_exe_db, nodes |-> node_agents,
     drivers |-> drivers, calls |-> << >>, exc |-> "none"]

\* What of a context is the collaborators' state
StateOf(c) ==
    [recon |-> c.recon, exes |-> c.exes, cleanup |-> c.cleanup, db |-> c.db,
     nodes |-> c.nodes, drivers |-> c.drivers]

\* A collaborator is called: the call is traced; it raises when the failure is
\* planned at this site (for this execution), else its effect takes place
Invoke(c, fault, site, exe, call, after) ==
    LET traced == [c EXCEPT !.calls = Append(@, call)]
    IN  IF fault.site = site /\ fault.exe \in {"none", exe}
        THEN [traced EXCEPT !.exc = fault.kind]
        ELSE [after EXCEPT !.calls = traced.calls]

(***************************************************************************)
(* RunningJobExecution transitions (job.execution.running.job_exe)         *)
(***************************************************************************)
ExeTransition(c, e, state, status, error) ==
    IF is_finished(c.exes[e]) THEN c
    ELSE [c EXCEPT !.exes[e].state = state,
                   !.exes[e].current_task = IF state \in ExeTerminal THEN Nothing ELSE @,
                   !.db = IF state \in ExeTerminal
                          THEN Put(@, e, [status |-> status, error |-> error])
                          ELSE @]

\* task_start(task_id, when)
task_start(c, e) == ExeTransition(c, e, "running", "RUNNING", "none")

\* task_complete(results)
task_complete(c, e) == ExeTransition(c, e, "finished", "COMPLETED", "none")

\* task_fail(results)
task_fail(c, e) == ExeTransition(c, e, "failed", "FAILED", "task-failed")

\* task_lost(task_id)
task_lost(c, e) == ExeTransition(c, e, "lost", "FAILED", "task-lost")

\* execution_lost(when)
execution_lost(c, e) == ExeTransition(c, e, "lost", "FAILED", "node-lost")

\* Queue.objects.handle_job_failure(job_exe_id, when, job_exe_output, error)
handle_job_failure(c, e, error) ==
    [c EXCEPT !.db = Put(@, e, [status |-> "FAILED", error |-> error])]

(***************************************************************************)
(* ScaleScheduler.statusUpdate(driver, status)                             *)
(***************************************************************************)
Raised(c) == c.exc # "none"

\* Mutant: the removal empties the reconciliation set
ReconRemove_Clear(c, status, fault) ==
    Invoke(c, fault, "remove_task_id", "none",
           [Called("recon_mgr.remove_task_id") EXCEPT !.task = status.task_id],
           [c EXCEPT !.recon = {}])

\* recon_mgr.remove_task_id(task_id)
ReconRemove(c, status, fault) ==
    Invoke(c, fault, "remove_task_id", "none",
           [Called("recon_mgr.remove_task_id") EXCEPT !.task = status.task_id],
           [c EXCEPT !.recon = @ \ {status.task_id}])

\* Mutant: a missing exit code becomes 1
FinishedExitCode_One(code) == IF code = Nothing THEN Some(1) ELSE code

\* if results.exit_code is None: results.exit_code = 0
FinishedExitCode(code) == IF code = Nothing THEN Some(0) ELSE code

\* Mutant: a killed task is taken for a lost one
ApplyStatus_KilledLost(c, e, status, fault) ==
    LET tid == status.task_id
        code == parse_exit_code(status)
    IN  CASE status.state = TASK_RUNNING ->
                Invoke(c, fault, "transition", e,
                       [Called("task_start") EXCEPT !.exe = e, !.task = tid], task_start(c, e))
          [] status.state = TASK_FINISHED ->
                Invoke(c, fault, "transition", e,
                       [Called("task_complete") EXCEPT !.exe = e, !.task = tid,
                                                      !.code = FinishedExitCode(code)],
                       task_complete(c, e))
          [] status.state \in {TASK_LOST, TASK_KILLED} ->
                Invoke(c, fault, "transition", e,
                       [Called("task_lost") EXCEPT !.exe = e, !.task = tid], task_lost(c, e))
          [] status.state \in {TASK_ERROR, TASK_FAILED} ->
                Invoke(c, fault, "transition", e,
                       [Called("task_fail") EXCEPT !.exe = e, !.task = tid, !.code = code], task_fail(c, e))
          [] OTHER -> c

\* Apply status update to running job execution
ApplyStatus(c, e, status, fault) ==
    LET tid == status.task_id
        code == parse_exit_code(status)
    IN  CASE status.state = TASK_RUNNING ->
                Invoke(c, fault, "transition", e,
                       [Called("task_start") EXCEPT !.exe = e, !.task = tid], task_start(c, e))
          [] status.state = TASK_FINISHED ->
                Invoke(c, fault, "transition", e,
                       [Called("task_complete") EXCEPT !.exe = e, !.task = tid,
                                                      !.code = FinishedExitCode(code)],
                       task_complete(c, e))
          [] status.state = TASK_LOST ->
                Invoke(c, fault, "transition", e,
                       [Called("task_lost") EXCEPT !.exe = e, !.task = tid], task_lost(c, e))
          [] status.state \in {TASK_ERROR, TASK_FAILED, TASK_KILLED} ->
                Invoke(c, fault, "transition", e,
                       [Called("task_fail") EXCEPT !.exe = e, !.task = tid, !.code = code], task_fail(c, e))
          [] OTHER -> c

\* Mutant: a finished job execution is removed and not forwarded to cleanup
RemoveFinished_NoCleanup(c, e, fault) ==
    IF ~ is_finished(c.exes[e]) THEN c
    ELSE Invoke(c, fault, "remove_job_exe", e,
                [Called("running_job_mgr.remove_job_exe") EXCEPT !.exe = e],
                [c EXCEPT !.exes = Without(@, {e})])

\* Remove finished job execution
RemoveFinished(c, e, fault) ==
    IF ~ is_finished(c.exes[e]) THEN c
    ELSE LET c1 == Invoke(c, fault, "remove_job_exe", e,
                          [Called("running_job_mgr.remove_job_exe") EXCEPT !.exe = e],
                          [c EXCEPT !.exes = Without(@, {e})])
         IN  IF Raised(c1) THEN c1
             ELSE Invoke(c1, fault, "add_job_execution", e,
                         [Called("cleanup_mgr.add_job_execution") EXCEPT !.exe = e],
                         [c1 EXCEPT !.cleanup = @ \cup {e}])

\* Mutant: an unknown job execution is ignored
FailUnknownJobExe_Ignored(c, e, fault) == c

\* Scheduler doesn't have any knowledge of this job execution
FailUnknownJobExe(c, e, fault) ==
    LET c1 == Invoke(c, fault, "get_builtin_error", e,
                     [Called("Error.objects.get_builtin_error") EXCEPT !.error = "scheduler-lost"],
                     c)
    IN  IF Raised(c1) THEN c1
        ELSE Invoke(c1, fault, "handle_job_failure", e,
                    [Called("Queue.objects.handle_job_failure")
                        EXCEPT !.exe = e, !.context = << >>, !.error = "scheduler-lost"],
                    handle_job_failure(c1, e, "scheduler-lost"))

\* The try block
ResolveJobExe(c, status, fault) ==
    LET e == get_job_exe_id(status.task_id)
        c1 == Invoke(c, fault, "get_job_exe", e,
                     [Called("running_job_mgr.get_job_exe") EXCEPT !.exe = e], c)
    IN  IF Raised(c1) THEN c1
        ELSE IF e \in DOMAIN c1.exes
        THEN LET c2 == ApplyStatus(c1, e, status, fault)
             IN  IF Raised(c2) THEN c2 ELSE RemoveFinished(c2, e, fault)
        ELSE FailUnknownJobExe(c1, e, fault)

\* Mutant: the exception is swallowed and the task is not re-added
ExceptHandler_Swallow(c, status) == [c EXCEPT !.exc = "none"]

\* except Exception: recon_mgr.add_task_ids([task_id])
ExceptHandler(c, status) ==
    [c EXCEPT !.exc = "none",
              !.calls = Append(@, [Called("recon_mgr.add_task_ids")
                                      EXCEPT !.tasks = {status.task_id}]),
              !.recon = @ \cup {status.task_id}]

\* Handle status update for cleanup task / for job execution task
\* statusUpdate putting a cleanup task id back into the reconciliation set
RouteStatus_Requeue(c, status, fault) ==
    IF IsCleanupTaskId(status.task_id)
    THEN LET c1 == Invoke(c, fault, "handle_task_update", "none",
                          [Called("cleanup_mgr.handle_task_update")
                              EXCEPT !.task = status.task_id, !.state = status.state],
                          c)
         IN  IF Raised(c1) THEN c1 ELSE ExceptHandler(c1, status)
    ELSE LET c1 == Invoke(c, fault, "add_status_update", "none",
                          [Called("task_update_mgr.add_status_update")
                              EXCEPT !.task = status.task_id, !.state = status.state], c)
             c2 == ResolveJobExe(c1, status, fault)
         IN  IF Raised(c1) THEN c1
             ELSE IF Raised(c2) THEN ExceptHandler(c2, status)
             ELSE c2

RouteStatus(c, status, fault) ==
    IF IsCleanupTaskId(status.task_id)
    THEN Invoke(c, fault, "handle_task_update", "none",
                [Called("cleanup_mgr.handle_task_update")
                    EXCEPT !.task = status.task_id, !.state = status.state],
                c)
    ELSE LET c1 == Invoke(c, fault, "add_status_update", "none",
                          [Called("task_update_mgr.add_status_update")
                              EXCEPT !.task = status.task_id, !.state = status.state], c)
             c2 == ResolveJobExe(c1, status, fault)
         IN  IF Raised(c1) THEN c1
             ELSE IF Raised(c2) THEN ExceptHandler(c2, status)
             ELSE c2

\* Mutant: the task id is removed from the reconciliation set last
statusUpdate_run_RemoveLast(c, status, fault) ==
    LET c1 == RouteStatus(c, status, fault)
    IN  IF Raised(c1) THEN c1 ELSE ReconRemove(c1, status, fault)

\* The callback from its first to its last statement
statusUpdate_run(c, status, fault) ==
    LET c1 == ReconRemove(c, status, fault)
    IN  IF Raised(c1) THEN c1 ELSE RouteStatus(c1, status, fault)

\* The failures a statusUpdate() can meet
StatusUpdateFaults ==
    { [site |-> x, kind |-> "Exception", exe |-> "none"] :
          x \in { "remove_task_id", "handle_task_update", "add_status_update",
                  "get_job_exe", "remove_job_exe", "add_job_execution",
                  "get_builtin_error" } }
    \cup { [site |-> x, kind |-> k, exe |-> "none"] :
               x \in { "transition", "handle_job_failure" }, k \in ExceptionKinds }

\* The state a callback leaves differs from the one its failure-free run leaves
\* in more than the reconciliation set
Diverged(c, clean) ==
    [StateOf(c) EXCEPT !.recon = {}] # [StateOf(clean) EXCEPT !.recon = {}]

\* The collaborators' state after a callback, and the record of the callback:
\* its inputs, the executions the registry held (and those of them on the
\* callback's agent), whether the node registry knew the agent and the
\* reconciliation set before it, its trace, the exception that left it, and whether it diverged from its failure-free run
FinishWith(name, c, clean, fault, status, agent_id, offers) ==
    /\ recon_task_ids' = c.recon
    /\ running_job_exes' = c.exes
    /\ cleanup_job_exes' = c.cleanup
    /\ job_exe_db' = c.db
    /\ node_agents' = c.nodes
    /\ drivers' = c.drivers
    /\ callback' = [name |-> name, raised |-> c.exc, calls |-> c.calls,
                    fault |-> fault, status |-> status, agent_id |-> agent_id,
                    known |-> DOMAIN running_job_exes,
                    recon_before |-> recon_task_ids,
                    on_node |-> { e \in DOMAIN running_job_exes :
                                    /\ agent_id # None
                                    /\ running_job_exes[e].node_id = NodeOf(agent_id).id },
                    node_known |-> agent_id \in node_agents,
                    diverged |-> Diverged(c, clean), offers |-> offers]

\* A callback that was handed no offers
Finish(name, c, clean, fault, status, agent_id) ==
    FinishWith(name, c, clean, fault, status, agent_id, << >>)

\* A planned failure that the callback never reaches is no input of its own
Reaches(c, clean, fault) == fault = NoFault \/ c # clean

statusUpdate_effect(status, fault) ==
    LET c == statusUpdate_run(Ctx, status, fault)
        clean == statusUpdate_run(Ctx, status, NoFault)
    IN  /\ Reaches(c, clean, fault)
        /\ Finish("statusUpdate", c, clean, fault, Some(status), None)

(***************************************************************************)
(* ScaleScheduler.slaveLost(driver, slaveId)                               *)
(***************************************************************************)
\* running_job_mgr.get_job_exes_on_node(node_id), in the order given
RECURSIVE ExesOnNode(_, _, _)
ExesOnNode(exes, node_id, order) ==
    IF order = << >> THEN << >>
    ELSE LET e == Head(order)
             rest == ExesOnNode(exes, node_id, Tail(order))
         IN  IF e \in DOMAIN exes /\ exes[e].node_id = node_id
             THEN << e >> \o rest ELSE rest

\* Mutant: the storage failure is caught and the task is not added
LostExceptHandler_NoAdd(c, e) == [c EXCEPT !.exc = "none"]

\* except DatabaseError: add the current task, if any, so it can be reconciled
LostExceptHandler(c, e) ==
    LET task == c.exes[e].current_task
    IN  IF task = Nothing THEN [c EXCEPT !.exc = "none"]
        ELSE [c EXCEPT !.exc = "none",
                       !.calls = Append(@, [Called("recon_mgr.add_task_ids")
                                               EXCEPT !.tasks = {task[1]}]),
                       !.recon = @ \cup {task[1]}]

\* One iteration of the loop over the executions of the lost node
FailLostJobExe(c, e, fault) ==
    LET c1 == Invoke(c, fault, "execution_lost", e,
                     [Called("execution_lost") EXCEPT !.exe = e],
                     execution_lost(c, e))
        c2 == IF c1.exc = "DatabaseError" THEN LostExceptHandler(c1, e) ELSE c1
    IN  IF Raised(c2) THEN c2 ELSE RemoveFinished(c2, e, fault)

\* Fail job executions that were running on the lost node
RECURSIVE FailLostJobExes(_, _, _)
FailLostJobExes(c, todo, fault) ==
    IF todo = << >> \/ Raised(c) THEN c
    ELSE FailLostJobExes(FailLostJobExe(c, Head(todo), fault), Tail(todo), fault)

\* The callback from its first to its last statement
slaveLost_run(c, agent_id, order, fault) ==
    LET known == agent_id \in c.nodes
        c1 == Invoke(c, fault, "get_node", "none",
                     [Called("node_mgr.get_node") EXCEPT !.agent = agent_id], c)
        c2 == Invoke(c1, fault, "lost_node", "none",
                     [Called("node_mgr.lost_node") EXCEPT !.agent = agent_id],
                     [c1 EXCEPT !.nodes = @ \ {agent_id}])
        c3 == Invoke(c2, fault, "offer_lost_node", "none",
                     [Called("offer_mgr.lost_node") EXCEPT !.agent = agent_id], c2)
        c4 == Invoke(c3, fault, "get_job_exes_on_node", "none",
                     [Called("running_job_mgr.get_job_exes_on_node")
                         EXCEPT !.agent = agent_id], c3)
    IN  IF Raised(c1) THEN c1
        ELSE IF Raised(c2) THEN c2
        ELSE IF Raised(c3) THEN c3
        ELSE IF ~ known THEN c3
        ELSE IF Raised(c4) THEN c4
        ELSE FailLostJobExes(c4, ExesOnNode(c4.exes, NodeOf(agent_id).id, order), fault)

\* The failures a slaveLost() can meet
SlaveLostFaults ==
    { [site |-> x, kind |-> "Exception", exe |-> "none"] :
          x \in { "lost_node", "offer_lost_node" } }
    \cup { [site |-> "execution_lost", kind |-> k, exe |-> e] :
               k \in ExceptionKinds, e \in JobExeIds }
    \cup { [site |-> "add_job_execution", kind |-> "Exception", exe |-> e] :
               e \in JobExeIds }

\* The orders in which the registry may list the executions of a node
ExeOrders == { << "e1", "e2" >>, << "e2", "e1" >> }

slaveLost_effect(agent_id, order, fault) ==
    LET c == slaveLost_run(Ctx, agent_id, order, fault)
        clean == slaveLost_run(Ctx, agent_id, order, NoFault)
    IN  /\ Reaches(c, clean, fault)
        /\ Finish("slaveLost", c, clean, fault, Nothing, agent_id)

(***************************************************************************)
(* ScaleScheduler._reconcile_running_jobs(), run by registered() and by    *)
(* reregistered()                                                          *)
(***************************************************************************)
\* Mutant: the query returns no more than one running execution
RunningInDb_First(db, order) ==
    LET running == SelectSeq(order, LAMBDA e : e \in DOMAIN db /\ db[e].status = "RUNNING")
    IN  IF running = << >> THEN << >> ELSE << Head(running) >>

\* JobExecution.objects.get_running_job_exes(), in the order given
RECURSIVE RunningInDb(_, _)
RunningInDb(db, order) ==
    IF order = << >> THEN << >>
    ELSE LET e == Head(order)
             rest == RunningInDb(db, Tail(order))
         IN  IF e \in DOMAIN db /\ db[e].status = "RUNNING"
             THEN << e >> \o rest ELSE rest

\* Find current task IDs for running executions; fail any executions that the
\* scheduler has lost.  The context's exc field carries an escaping exception,
\* the second component the task ids collected so far.
RECURSIVE ReconcileLoop(_, _, _, _)
ReconcileLoop(c, todo, task_ids, fault) ==
    IF todo = << >> \/ Raised(c) THEN << c, task_ids >>
    ELSE LET e == Head(todo)
             c1 == Invoke(c, fault, "get_job_exe", e,
                          [Called("running_job_mgr.get_job_exe") EXCEPT !.exe = e], c)
         IN  IF Raised(c1) THEN << c1, task_ids >>
             ELSE IF e \in DOMAIN c1.exes
             THEN ReconcileLoop(c1, Tail(todo),
                                IF c1.exes[e].current_task = Nothing THEN task_ids
                                ELSE task_ids \cup {c1.exes[e].current_task[1]},
                                fault)
             ELSE ReconcileLoop(FailUnknownJobExe(c1, e, fault), Tail(todo),
                                task_ids, fault)

\* Mutant: the task ids of the orphaned executions are sent as well
reconcile_running_jobs_run_Orphans(c, order, fault) ==
    LET c1 == Invoke(c, fault, "get_running_job_exes", "none",
                     Called("JobExecution.objects.get_running_job_exes"), c)
        todo == RunningInDb(c1.db, order)
        done == ReconcileLoop(c1, todo, {}, fault)
        ids == done[2] \cup { JobTaskId(todo[i]) : i \in 1..Len(todo) }
    IN  IF Raised(c1) THEN c1
        ELSE IF Raised(done[1]) THEN done[1]
        ELSE [done[1] EXCEPT
                 !.calls = Append(@, [Called("recon_mgr.add_task_ids")
                                         EXCEPT !.tasks = ids]),
                 !.recon = @ \cup ids]

reconcile_running_jobs_run(c, order, fault) ==
    LET c1 == Invoke(c, fault, "get_running_job_exes", "none",
                     Called("JobExecution.objects.get_running_job_exes"), c)
        done == ReconcileLoop(c1, RunningInDb(c1.db, order), {}, fault)
    IN  IF Raised(c1) THEN c1
        ELSE IF Raised(done[1]) THEN done[1]
        ELSE [done[1] EXCEPT
                 !.calls = Append(@, [Called("recon_mgr.add_task_ids")
                                         EXCEPT !.tasks = done[2]]),
                 !.recon = @ \cup done[2]]

\* The failures a (re)registration can meet while reconciling
ReconcileFaults ==
    { [site |-> "handle_job_failure", kind |-> "DatabaseError", exe |-> e] :
          e \in JobExeIds }

\* The failures a re-registration can meet
ReregisteredFaults ==
    ReconcileFaults
    \cup { [site |-> "update_master", kind |-> "DatabaseError", exe |-> "none"] }

\* An assignment of the driver to one of its holders, traced like a call
SetDriver(c, holder, fn, driver) ==
    [c EXCEPT !.drivers[holder] = driver,
              !.calls = Append(@, [Called(fn) EXCEPT !.driver = driver])]

\* registered(): the scheduler keeps the driver, recon_mgr gets it, the
\* background threads are created with it, then the running jobs are reconciled
registered_run(c, driver, order, fault) ==
    LET c1 == SetDriver(c, "controller", "self._driver", driver)
        c2 == SetDriver(c1, "recon", "recon_mgr.driver", driver)
        c3 == SetDriver(c2, "db_sync", "DatabaseSyncThread", driver)
        c4 == SetDriver(c3, "scheduling", "SchedulingThread", driver)
    IN  reconcile_running_jobs_run(c4, order, fault)

registered_effect(driver, order, fault) ==
    LET c == registered_run(Ctx, driver, order, fault)
        clean == registered_run(Ctx, driver, order, NoFault)
    IN  /\ Reaches(c, clean, fault)
        /\ Finish("registered", c, clean, fault, Nothing, None)

\* Mutant: the scheduling thread keeps the driver it was created with
reregistered_run_StaleScheduling(c, driver, order, fault) ==
    LET c1 == SetDriver(c, "controller", "self._driver", driver)
        c2 == SetDriver(c1, "db_sync", "db_sync_thread.driver", driver)
        c3 == SetDriver(c2, "recon", "recon_mgr.driver", driver)
    IN  reconcile_running_jobs_run(c3, order, fault)

\* reregistered(): update driver for background threads, then reconcile
reregistered_run(c, driver, order, fault) ==
    LET c1 == SetDriver(c, "controller", "self._driver", driver)
        u  == Invoke(c1, fault, "update_master", "none",
                     Called("Scheduler.objects.update_master"), c1)
        c2 == SetDriver(u, "db_sync", "db_sync_thread.driver", driver)
        c3 == SetDriver(c2, "recon", "recon_mgr.driver", driver)
        c4 == SetDriver(c3, "scheduling", "scheduling_thread.driver", driver)
    IN  IF Raised(u) THEN u ELSE reconcile_running_jobs_run(c4, order, fault)

reregistered_effect(driver, order, fault) ==
    LET c == reregistered_run(Ctx, driver, order, fault)
        clean == reregistered_run(Ctx, driver, order, NoFault)
    IN  /\ Reaches(c, clean, fault)
        /\ Finish("reregistered", c, clean, fault, Nothing, None)

(***************************************************************************)
(* ScaleScheduler.resourceOffers / offerRescinded / frameworkMessage /     *)
(* executorLost                                                            *)
(***************************************************************************)
\* A Mesos offer: id, slave id and a list of named scalar resources
MesosOffer(id, a, resources) == [id |-> id, slave_id |-> a, resources |-> resources]

MesosOfferLists ==
    { << MesosOffer("o1", "a1", << << "cpus", 4 >>, << "mem", 1024 >> >>) >>,
      << MesosOffer("o2", "a2", << << "disk", 5 >>, << "ports", 80 >>, << "cpus", 1 >> >>),
         MesosOffer("o1", "a1", << >>) >> }

\* for resource in offer.resources: ... (names other than disk, mem, cpus are
\* skipped; a name that is missing leaves 0)
RECURSIVE ScalarOf(_, _)
ScalarOf(resources, name) ==
    IF resources = << >> THEN 0
    ELSE LET last == resources[Len(resources)]
         IN  IF last[1] = name THEN last[2]
             ELSE ScalarOf(SubSeq(resources, 1, Len(resources) - 1), name)

\* ResourceOffer(offer_id, agent_id, NodeResources(cpus=cpus, mem=mem, disk=disk))
ToResourceOffer(offer) ==
    [id |-> offer.id, agent_id |-> offer.slave_id,
     resources |-> NodeResources(ScalarOf(offer.resources, "cpus"),
                                 ScalarOf(offer.resources, "mem"),
                                 ScalarOf(offer.resources, "disk"))]

\* resourceOffers handing the offers over before the agents are registered
resourceOffers_run_HandFirst(c, offers, fault) ==
    LET agent_ids == { offers[i].slave_id : i \in 1..Len(offers) }
        resource_offers == [i \in 1..Len(offers) |-> ToResourceOffer(offers[i])]
        c1 == Invoke(c, fault, "add_new_offers", "none",
                     [Called("offer_mgr.add_new_offers")
                         EXCEPT !.offers = resource_offers], c)
    IN  IF Raised(c1) THEN c1
        ELSE Invoke(c1, fault, "register_agent_ids", "none",
                    [Called("node_mgr.register_agent_ids")
                        EXCEPT !.agent_ids = agent_ids],
                    [c1 EXCEPT !.nodes = @ \cup agent_ids])

resourceOffers_run(c, offers, fault) ==
    LET agent_ids == { offers[i].slave_id : i \in 1..Len(offers) }
        resource_offers == [i \in 1..Len(offers) |-> ToResourceOffer(offers[i])]
        c1 == Invoke(c, fault, "register_agent_ids", "none",
                     [Called("node_mgr.register_agent_ids")
                         EXCEPT !.agent_ids = agent_ids],
                     [c EXCEPT !.nodes = @ \cup agent_ids])
    IN  IF Raised(c1) THEN c1
        ELSE Invoke(c1, fault, "add_new_offers", "none",
                    [Called("offer_mgr.add_new_offers")
                        EXCEPT !.offers = resource_offers], c1)

resourceOffers_effect(offers, fault) ==
    LET c == resourceOffers_run(Ctx, offers, fault)
        clean == resourceOffers_run(Ctx, offers, NoFault)
    IN  /\ Reaches(c, clean, fault)
        /\ FinishWith("resourceOffers", c, clean, fault, Nothing, None, offers)

offerRescinded_run(c, offer_id, fault) ==
    Invoke(c, fault, "remove_offers", "none", Called("offer_mgr.remove_offers"), c)

offerRescinded_effect(offer_id, fault) ==
    LET c == offerRescinded_run(Ctx, offer_id, fault)
        clean == offerRescinded_run(Ctx, offer_id, NoFault)
    IN  /\ Reaches(c, clean, fault)
        /\ Finish("offerRescinded", c, clean, fault, Nothing, None)

\* frameworkMessage() and executorLost(): node_mgr.get_node(agent_id), then logging
logOnly_run(c, agent_id, fault) ==
    Invoke(c, fault, "get_node", "none",
           [Called("node_mgr.get_node") EXCEPT !.agent = agent_id], c)

frameworkMessage_effect(agent_id, fault) ==
    LET c == logOnly_run(Ctx, agent_id, fault)
        clean == logOnly_run(Ctx, agent_id, NoFault)
    IN  /\ Reaches(c, clean, fault)
        /\ Finish("frameworkMessage", c, clean, fault, Nothing, agent_id)

executorLost_effect(agent_id, fault) ==
    LET c == logOnly_run(Ctx, agent_id, fault)
        clean == logOnly_run(Ctx, agent_id, NoFault)
    IN  /\ Reaches(c, clean, fault)
        /\ Finish("executorLost", c, clean, fault, Nothing, agent_id)

\* The failures of the callbacks that only touch the node and offer managers
SimpleFaults(site) == { NoFault, [site |-> site, kind |-> "Exception", exe |-> "none"] }

(***************************************************************************)
(* The ResourceManager under concurrent callers                            *)
(***************************************************************************)
Next ==
    \/ \E t \in Threads, offers \in OfferBatches : add_new_offers_lock(t, offers)
    \/ \E t \in Threads : add_new_offers_store(t)
    \/ \E t \in Threads, a \in AgentIds : lost_agent_lock_offers(t, a)
    \/ \E t \in Threads : lost_agent_purge(t)
    \/ \E t \in Threads : lost_agent_lock_agents(t)
    \/ \E t \in Threads : lost_agent_delete(t)
    \/ \E t \in Threads, ids \in OfferIdLists : remove_offers_lock_offers(t, ids)
    \/ \E t \in Threads : remove_offers_pending(t)
    \/ \E t \in Threads : remove_offers_lock_agents(t)
    \/ \E t \in Threads : remove_offers_agents(t)
    \/ \E t \in Threads, tasks \in TaskLists : refresh_lock_offers(t, tasks)
    \/ \E t \in Threads : refresh_swap(t)
    \/ \E t \in Threads : refresh_lock_agents(t)
    \/ \E t \in Threads : refresh_agents(t)
    \/ \E t \in Threads : refresh_watermark(t)
    \/ \E t \in Threads, sh \in ShortageMaps : set_agent_shortages_lock(t, sh)
    \/ \E t \in Threads : set_agent_shortages_apply(t)
    \/ \E t \in Threads, nodes \in NodeLists : generate_status_json_lock(t, nodes)
    \/ \E t \in Threads : generate_status_json_fold(t)

Spec == Init /\ [][Next]_vars

\* The same operations, called one at a time
SpecSerial == InitSerial /\ [][Next]_vars

\* Time passes between the calls: now() returns a later time
advance_clock ==
    /\ \A t \in Threads : pc[t] = "idle"
    /\ clock < MaxClock
    /\ clock' = clock + 1
    /\ UNCHANGED << sched_vars, env_vars,
                    agent_resources, agent_resources_lock, last_watermark_reset,
                    new_offers, new_offers_lock, pc, frame, ret, status_dict,
                    n_calls, n_cycles, fate, lost_returned, status_lost, serial >>

\* Offers and refresh cycles of one caller over a period of time
WatermarkNext ==
    \/ \E t \in Threads, offers \in OfferBatches : add_new_offers_lock(t, offers)
    \/ \E t \in Threads : add_new_offers_store(t)
    \/ \E t \in Threads, tasks \in TaskLists : refresh_lock_offers(t, tasks)
    \/ \E t \in Threads : refresh_swap(t)
    \/ \E t \in Threads : refresh_lock_agents(t)
    \/ \E t \in Threads : refresh_agents(t)
    \/ \E t \in Threads : refresh_watermark(t)
    \/ advance_clock

SpecWatermark == InitSerial /\ [][WatermarkNext]_vars


(***************************************************************************)
(* The scheduler callbacks, delivered one at a time by the driver thread,  *)
(* with any status update at any time (delayed, duplicated, unknown)       *)
(***************************************************************************)
\* The driver delivers a callback when the scheduler is registered and the
\* previous callback has returned to it
CanDeliver ==
    /\ callback = NoCallback
    /\ drivers.controller # None
    /\ n_callbacks < MaxCallbacks

Delivered ==
    /\ n_callbacks' = n_callbacks + 1
    /\ UNCHANGED << rm_vars, mesos_tasks, in_flight, recon_round, registration >>

statusUpdate(status, fault) ==
    /\ CanDeliver
    /\ statusUpdate_effect(status, fault)
    /\ Delivered

slaveLost(agent_id, order, fault) ==
    /\ CanDeliver
    /\ slaveLost_effect(agent_id, order, fault)
    /\ Delivered

\* The first callback of a scheduler process, before any other
registered(driver, order, fault) ==
    /\ callback = NoCallback
    /\ drivers.controller = None
    /\ registered_effect(driver, order, fault)
    /\ UNCHANGED << rm_vars, env_vars >>

reregistered(driver, order, fault) ==
    /\ CanDeliver
    /\ reregistered_effect(driver, order, fault)
    /\ Delivered

resourceOffers(offers, fault) ==
    /\ CanDeliver
    /\ resourceOffers_effect(offers, fault)
    /\ Delivered

offerRescinded(offer_id, fault) ==
    /\ CanDeliver
    /\ offerRescinded_effect(offer_id, fault)
    /\ Delivered

frameworkMessage(agent_id, fault) ==
    /\ CanDeliver
    /\ frameworkMessage_effect(agent_id, fault)
    /\ Delivered

executorLost(agent_id, fault) ==
    /\ CanDeliver
    /\ executorLost_effect(agent_id, fault)
    /\ Delivered

\* The scheduling thread launches the task of a queued job execution on a node:
\* the execution is RUNNING in the database, is in the registry, and the
\* cluster manager stages its task
schedule_launch(e, a) ==
    /\ callback = NoCallback
    /\ e \notin DOMAIN job_exe_db
    /\ a \in node_agents
    /\ running_job_exes' = Put(running_job_exes, e, RunningJobExecution(e, a))
    /\ job_exe_db' = Put(job_exe_db, e, [status |-> "RUNNING", error |-> "none"])
    /\ mesos_tasks' = Put(mesos_tasks, JobTaskId(e), TASK_STAGING)
    /\ UNCHANGED << rm_vars, recon_task_ids, cleanup_job_exes, node_agents,
                    drivers, callback, n_callbacks, in_flight, recon_round,
                    registration >>

\* The scheduler process restarts: the registry, the reconciliation set and
\* the driver are in memory only, the database is kept; the new process
\* registers before anything else
scheduler_restart ==
    /\ callback = NoCallback
    /\ running_job_exes # EmptyMap
    /\ running_job_exes' = EmptyMap
    /\ recon_task_ids' = {}
    /\ cleanup_job_exes' = {}
    /\ node_agents' = {}
    /\ drivers' = NoDrivers
    /\ UNCHANGED << rm_vars, job_exe_db, callback, env_vars >>

\* The callback returns to the driver
callback_return ==
    /\ callback # NoCallback
    /\ callback' = NoCallback
    /\ UNCHANGED << rm_vars, recon_task_ids, running_job_exes, cleanup_job_exes,
                    job_exe_db, node_agents, drivers, env_vars >>

\* The status updates the driver may deliver: any state for the task of a job
\* execution, with or without an exit code where the task has ended
StatusPool ==
    { TaskStatus(JobTaskId(e), state, Nothing) : e \in JobExeIds, state \in TaskStates }
    \cup { TaskStatus(JobTaskId(e), state, code) :
               e \in JobExeIds, state \in {TASK_FINISHED, TASK_FAILED},
               code \in ExitCodes }
    \cup { TaskStatus(CleanupTaskId("a1"), state, Nothing) :
               state \in {TASK_RUNNING, TASK_FINISHED} }

\* The failures injected into a statusUpdate: those of its collaborators, for
\* the updates of one execution's task and of the cleanup task
StatusFaults(status) ==
    IF status.task_id = JobTaskId("e2") THEN {} ELSE StatusUpdateFaults

SchedNext ==
    \/ \E status \in StatusPool :
          \E fault \in {NoFault} \cup StatusFaults(status) : statusUpdate(status, fault)
    \/ \E a \in AgentIds, order \in ExeOrders, fault \in {NoFault} \cup SlaveLostFaults :
           slaveLost(a, order, fault)
    \/ \E order \in ExeOrders, fault \in {NoFault} \cup ReconcileFaults :
           registered("d1", order, fault)
    \/ \E driver \in Drivers, order \in ExeOrders,
          fault \in {NoFault} \cup ReregisteredFaults :
           reregistered(driver, order, fault)
    \/ \E offers \in MesosOfferLists,
          fault \in SimpleFaults("register_agent_ids") \cup SimpleFaults("add_new_offers") :
           resourceOffers(offers, fault)
    \/ \E o \in OfferIds, fault \in SimpleFaults("remove_offers") :
           offerRescinded(o, fault)
    \/ \E a \in AgentIds, fault \in SimpleFaults("get_node") : frameworkMessage(a, fault)
    \/ \E a \in AgentIds, fault \in SimpleFaults("get_node") : executorLost(a, fault)
    \/ \E e \in JobExeIds, a \in AgentIds : schedule_launch(e, a)
    \/ scheduler_restart
    \/ callback_return

SchedSpec == Init /\ [][SchedNext]_vars

(***************************************************************************)
(* The reconciliation protocol: launched tasks run on a cluster manager    *)
(* whose status updates may be lost; the reconciliation thread asks it for *)
(* the tasks of the reconciliation set                                     *)
(***************************************************************************)
\* The states a task at the cluster manager moves to
TaskProgress(state) ==
    CASE state = TASK_STAGING -> { TASK_RUNNING }
      [] state = TASK_RUNNING -> { TASK_FINISHED, TASK_FAILED }
      [] OTHER -> {}

\* The cluster manager moves a task on and sends a status update, which may
\* be lost on its way to the scheduler
mesos_task_update(tid, state, lost) ==
    /\ tid \in DOMAIN mesos_tasks
    /\ state \in TaskProgress(mesos_tasks[tid])
    /\ mesos_tasks' = Put(mesos_tasks, tid, state)
    /\ in_flight' = IF lost THEN in_flight
                    ELSE in_flight \cup { TaskStatus(tid, state, Nothing) }
    /\ UNCHANGED << rm_vars, sched_vars, n_callbacks, recon_round, registration >>

\* The driver delivers a status update that is on its way
mesos_deliver(status) ==
    /\ callback = NoCallback
    /\ drivers.controller # None
    /\ status \in in_flight
    /\ statusUpdate_effect(status, NoFault)
    /\ in_flight' = in_flight \ { status }
    /\ UNCHANGED << rm_vars, mesos_tasks, n_callbacks, recon_round, registration >>

\* One round of the reconciliation thread, which runs on a fixed interval: it
\* sends the reconciliation set to the cluster manager, which answers with a
\* status update for each task of the request
perform_reconciliation ==
    /\ recon_round' = 1 - recon_round
    /\ in_flight' = in_flight \cup
           { TaskStatus(tid, mesos_tasks[tid], Nothing) :
                 tid \in recon_task_ids \cap DOMAIN mesos_tasks }
    /\ UNCHANGED << rm_vars, sched_vars, mesos_tasks, n_callbacks, registration >>

\* The callbacks the cluster manager's events bring about, whenever they happen
live_resourceOffers(offers) ==
    /\ callback = NoCallback
    /\ drivers.controller # None
    /\ resourceOffers_effect(offers, NoFault)
    /\ UNCHANGED << rm_vars, env_vars >>

live_registered(order) ==
    /\ callback = NoCallback
    /\ drivers.controller = None
    /\ registered_effect("d1", order, NoFault)
    /\ UNCHANGED << rm_vars, env_vars >>

live_reregistered(order) ==
    /\ callback = NoCallback
    /\ drivers.controller # None
    /\ reregistered_effect("d2", order, NoFault)
    /\ UNCHANGED << rm_vars, env_vars >>

\* The job executions queued while the protocol is watched
LiveJobExeIds == { "e1" }

LiveNext ==
    \/ \E offers \in MesosOfferLists : live_resourceOffers(offers)
    \/ \E e \in LiveJobExeIds, a \in AgentIds : schedule_launch(e, a)
    \/ \E tid \in TaskIds, state \in TaskStates, lost \in BOOLEAN :
           mesos_task_update(tid, state, lost)
    \/ \E status \in StatusPool : mesos_deliver(status)
    \/ perform_reconciliation
    \/ \E order \in ExeOrders : live_registered(order)
    \/ \E order \in ExeOrders : live_reregistered(order)
    \/ callback_return

\* The driver thread and the reconciliation thread are scheduled fairly, and
\* the cluster manager goes on; nothing makes it re-register the scheduler
LiveSpec ==
    /\ Init
    /\ [][LiveNext]_vars
    /\ WF_vars(callback_return)
    /\ WF_vars(\E status \in StatusPool : mesos_deliver(status))
    /\ WF_vars(perform_reconciliation)
    /\ WF_vars(\E tid \in TaskIds, state \in TaskStates, lost \in BOOLEAN :
                   mesos_task_update(tid, state, lost))

(***************************************************************************)
(* Properties of the ResourceManager                                       *)
(***************************************************************************)
PendingFor(a) == { k \in DOMAIN new_offers : new_offers[k].offer.agent_id = a }

\* The steps a call in progress can take (everything but the start of a call)
Step(t) ==
    \/ add_new_offers_store(t)
    \/ lost_agent_purge(t) \/ lost_agent_lock_agents(t) \/ lost_agent_delete(t)
    \/ remove_offers_pending(t) \/ remove_offers_lock_agents(t)
    \/ remove_offers_agents(t)
    \/ refresh_swap(t) \/ refresh_lock_agents(t) \/ refresh_agents(t)
    \/ refresh_watermark(t)
    \/ set_agent_shortages_apply(t)
    \/ generate_status_json_fold(t)

\* C1: under any interleaving, once lost_agent(A) has returned and no offer for
\* A has been added since the call began, there is no AgentResources entry for A
\* and no pending offer for A.
C1_LostAgentNeverContributes ==
    \A a \in lost_returned :
        a \notin DOMAIN agent_resources /\ PendingFor(a) = {}

\* The totals a report would show without the entry of agent a
RECURSIVE FoldEntries(_, _, _)
FoldEntries(entries, todo, field) ==
    IF todo = {} THEN ZeroResources
    ELSE LET n == CHOOSE x \in todo : TRUE
         IN  ResAdd(IF entries[n] = Nothing THEN ZeroResources
                    ELSE entries[n][1][field],
                    FoldEntries(entries, todo \ {n}, field))

TotalsWithout(report, a) ==
    LET others == (DOMAIN report.nodes) \ {a}
    IN  [running |-> FoldEntries(report.nodes, others, "running"),
         offered |-> FoldEntries(report.nodes, others, "offered"),
         watermark |-> FoldEntries(report.nodes, others, "watermark")]

\* C2: with one call at a time, after lost_agent(A) the pending buffer holds no
\* offer of A, the agent map has no key A, and a status report generated then has
\* no entry for A and totals that are exactly those of the other nodes.
C2_LostAgentZeroContribution ==
    /\ \A a \in lost_returned :
           a \notin DOMAIN agent_resources /\ PendingFor(a) = {}
    /\ status_dict # Nothing =>
           \A a \in status_lost :
               /\ a \in DOMAIN status_dict[1].nodes => status_dict[1].nodes[a] = Nothing
               /\ status_dict[1].resources = TotalsWithout(status_dict[1], a)

\* C2 witness: agent a1 had absorbed offers, was lost, and a report that lists
\* it was generated afterwards while another agent still contributes.
C2_Witness ==
    /\ serial
    /\ status_dict # Nothing
    /\ "a1" \in status_lost
    /\ "a1" \in DOMAIN status_dict[1].nodes
    /\ \E i \in DOMAIN fate : fate[i].agent_id = "a1" /\ fate[i].cycles = 1
    /\ status_dict[1].resources.offered # ZeroResources

\* C3: every ResourceOffer object stored in the pending buffer is, at any time,
\* exactly one of: still pending, removed while pending, overwritten by a later
\* offer of the same id, or handed to exactly one refresh cycle; the batch of a
\* cycle holds only offers stored before its swap, and what is pending was
\* stored after the latest swap.
C3_OfferHandedToExactlyOneCycle ==
    /\ \A i \in DOMAIN fate :
           fate[i].cycles
             + (IF i \in ObjsOf(new_offers) THEN 1 ELSE 0)
             + (IF fate[i].removed THEN 1 ELSE 0)
             + (IF fate[i].superseded THEN 1 ELSE 0) = 1
    /\ \A t \in Threads :
           pc[t] \in {"refresh_wait", "refresh_agents", "refresh_watermark"} =>
               \A i \in ObjsOf(frame[t].new_offers) :
                   fate[i].born < frame[t].cycle /\ fate[i].cycles = 1
    /\ \A i \in ObjsOf(new_offers) : fate[i].born = n_cycles

\* C3 witness: a cycle holds a swapped-out batch while an offer added after its
\* swap is pending for the next cycle.
C3_Witness ==
    \E t \in Threads :
        /\ pc[t] = "refresh_wait"
        /\ frame[t].new_offers # EmptyMap
        /\ new_offers # EmptyMap

\* C4: no thread ever holds the offer lock and the agent lock together, and
\* whenever a call is in progress some call in progress can take its next step.
C4_LocksNeverHeldTogether ==
    /\ \A t \in Threads : ~ (new_offers_lock = t /\ agent_resources_lock = t)
    /\ (\E t \in Threads : pc[t] # "idle") => \E t \in Threads : ENABLED Step(t)

\* C4 witness: one thread waits for the agent lock, having released the offer
\* lock, while the two locks are held by nobody else than the other thread.
C4_Witness ==
    \E t, u \in Threads :
        /\ t # u
        /\ pc[t] \in {"lost_agent_wait", "remove_offers_wait", "refresh_wait"}
        /\ agent_resources_lock = u
        /\ new_offers_lock = None

(***************************************************************************)
(* Properties of the scheduler callbacks                                   *)
(***************************************************************************)
\* The callback that has just run is a statusUpdate()
InStatusUpdate == callback.name = "statusUpdate"

\* The status of the statusUpdate() that has just run, and its job execution
TheStatus == callback.status[1]
TheJobExe == get_job_exe_id(TheStatus.task_id)

\* The positions of the trace that call one of the functions
CallsOf(fns) == { i \in 1..Len(callback.calls) : callback.calls[i].fn \in fns }

TransitionCalls == { "task_start", "task_complete", "task_fail", "task_lost", "execution_lost" }

\* The places of the try block where a collaborator can raise
TryBlockSites ==
    { "get_job_exe", "transition", "remove_job_exe", "add_job_execution",
      "get_builtin_error", "handle_job_failure" }

\* C6: statusUpdate() removes the status's task id from the reconciliation set
\* first: the first call of its trace is recon_mgr.remove_task_id for that task
\* id, whatever the task id and the reported state, every other call comes
\* after it, and when that removal raises nothing else has been done.
C6_RemoveFromReconFirst ==
    InStatusUpdate =>
        /\ Len(callback.calls) >= 1
        /\ callback.calls[1].fn = "recon_mgr.remove_task_id"
        /\ callback.calls[1].task = TheStatus.task_id
        /\ CallsOf({"recon_mgr.remove_task_id"}) = {1}
        /\ callback.fault.site = "remove_task_id" => Len(callback.calls) = 1

\* A status update for a task that was in the reconciliation set has been
\* handled to the end: removal first, then recording, lookup and transition
C6_Witness ==
    /\ InStatusUpdate
    /\ TheStatus.task_id \in callback.recon_before
    /\ TheStatus.task_id \notin recon_task_ids
    /\ Len(callback.calls) >= 4
    /\ callback.raised = "none"

\* C7: an exception raised while statusUpdate() resolves a job-execution task
\* (registry lookup, transition, removal and forwarding of a finished
\* execution, durable failure recording) does not leave the callback, and the
\* task id is in the reconciliation set when the callback returns.
C7_ResolutionErrorRequeues ==
    (InStatusUpdate /\ callback.fault.site \in TryBlockSites) =>
        /\ callback.raised = "none"
        /\ TheStatus.task_id \in recon_task_ids

\* A transition raised for a task that was not in the reconciliation set
C7_Witness ==
    /\ InStatusUpdate
    /\ callback.fault.site = "transition"
    /\ CallsOf(TransitionCalls) # {}
    /\ TheStatus.task_id \notin callback.recon_before
    /\ TheStatus.task_id \in recon_task_ids

\* C8: errors never escape a callback: each of the six callbacks returns
\* normally whatever collaborator failed, and the state it leaves differs from
\* the one of its failure-free run in the reconciliation set only.
C8_ErrorsNeverEscape ==
    callback.name \in { "resourceOffers", "offerRescinded", "statusUpdate",
                        "slaveLost", "frameworkMessage", "executorLost" } =>
        /\ callback.raised = "none"
        /\ ~ callback.diverged

\* C9: a statusUpdate() for a non-cleanup task whose job execution is not in
\* the registry, the calls before the failure recording having returned, calls
\* handle_job_failure exactly once, for that execution, with the built-in
\* 'scheduler-lost' error and an empty context list; it applies no execution
\* transition, calls nothing of the cleanup collaborator and nothing that
\* changes the registry, which holds the executions it held before.
C9_UnknownExecutionFailedOnce ==
    ( /\ InStatusUpdate
      /\ ~ IsCleanupTaskId(TheStatus.task_id)
      /\ TheJobExe \notin callback.known
      /\ callback.fault.site \in { "none", "handle_job_failure" } ) =>
        /\ \E i \in 1..Len(callback.calls) :
               /\ CallsOf({"Queue.objects.handle_job_failure"}) = {i}
               /\ callback.calls[i].exe = TheJobExe
               /\ callback.calls[i].error = "scheduler-lost"
               /\ callback.calls[i].context = << >>
               /\ i > 1
               /\ callback.calls[i - 1].fn = "Error.objects.get_builtin_error"
               /\ callback.calls[i - 1].error = "scheduler-lost"
        /\ CallsOf(TransitionCalls) = {}
        /\ CallsOf({ "running_job_mgr.remove_job_exe", "cleanup_mgr.add_job_execution",
                     "cleanup_mgr.handle_task_update" }) = {}
        /\ DOMAIN running_job_exes = callback.known

\* After a restart the registry no longer holds an execution that durable
\* storage has as RUNNING until its status update fails it
C9_Witness ==
    /\ InStatusUpdate
    /\ ~ IsCleanupTaskId(TheStatus.task_id)
    /\ TheJobExe \notin callback.known
    /\ callback.fault = NoFault
    /\ TheJobExe \in DOMAIN job_exe_db
    /\ job_exe_db[TheJobExe] = [status |-> "FAILED", error |-> "scheduler-lost"]
    /\ callback.known # {}

\* C10: a FINISHED status update without an exit code reaches task_complete
\* with exit code 0, one with an exit code reaches it with that exit code
\* unchanged, and for no other state is the default applied: task_complete is
\* called for FINISHED only, and task_fail gets the exit code of the status,
\* none when the status has none.
C10_FinishedExitCodeDefault ==
    InStatusUpdate =>
        /\ \A i \in CallsOf({"task_complete"}) :
               /\ TheStatus.state = TASK_FINISHED
               /\ callback.calls[i].code =
                      IF TheStatus.exit_code = Nothing THEN Some(0)
                      ELSE TheStatus.exit_code
        /\ \A i \in CallsOf({"task_fail"}) :
               /\ TheStatus.state # TASK_FINISHED
               /\ callback.calls[i].code = TheStatus.exit_code
        /\ \A i \in CallsOf({"task_start", "task_lost"}) :
               callback.calls[i].code = Nothing
        /\ ( /\ TheStatus.state = TASK_FINISHED
             /\ ~ IsCleanupTaskId(TheStatus.task_id)
             /\ TheJobExe \in callback.known
             /\ callback.fault.site \notin
                    { "remove_task_id", "add_status_update", "get_job_exe" } )
           => CallsOf({"task_complete"}) # {}

\* A FINISHED update without an exit code has completed a running execution
C10_Witness ==
    /\ InStatusUpdate
    /\ TheStatus.state = TASK_FINISHED
    /\ TheStatus.exit_code = Nothing
    /\ \E i \in CallsOf({"task_complete"}) : callback.calls[i].code = Some(0)
    /\ TheJobExe \in DOMAIN job_exe_db
    /\ job_exe_db[TheJobExe].status = "COMPLETED"

\* C5: every launched task eventually reaches a terminal, durably recorded
\* state even when status callbacks are lost: from the launch of a job
\* execution on, there is a later point at which durable storage has it as
\* completed or failed (failed covers lost) and its task id is not in the
\* reconciliation set.
C5_LaunchedTaskEventuallyTerminal ==
    \A e \in JobExeIds :
        (e \in DOMAIN job_exe_db) ~>
            ( /\ e \in DOMAIN job_exe_db
              /\ job_exe_db[e].status \in { "COMPLETED", "FAILED" }
              /\ JobTaskId(e) \notin recon_task_ids )

\* C11: a task id leaves the reconciliation set only by a received status
\* update for that id (no agent-loss event removes one either): every step
\* that takes an id out of the set is the delivery of a statusUpdate() for
\* that very id; no other callback and no step of the scheduling thread
\* removes an id.  A restart of the scheduler process loses the whole
\* in-memory set and is no step of the running scheduler.
C11_RemovedOnlyByStatusUpdate ==
    [][ \/ scheduler_restart
        \/ \A tid \in recon_task_ids \ recon_task_ids' :
               /\ callback'.name = "statusUpdate"
               /\ callback'.status[1].task_id = tid ]_vars

\* A status update took its task id out of a reconciliation set that still
\* holds the id of another task
C11_Witness ==
    /\ InStatusUpdate
    /\ TheStatus.task_id \in callback.recon_before
    /\ TheStatus.task_id \notin recon_task_ids
    /\ recon_task_ids # {}
    /\ recon_task_ids \subseteq callback.recon_before

(***************************************************************************)
(* Properties of slaveLost() and of the (re)registration                   *)
(***************************************************************************)
InSlaveLost == callback.name = "slaveLost"

\* The executions the slaveLost() that has just run called execution_lost on
LostCalled == { callback.calls[i].exe : i \in CallsOf({"execution_lost"}) }

\* The task ids the callback that has just run handed to recon_mgr.add_task_ids
TasksAdded == UNION { callback.calls[i].tasks : i \in CallsOf({"recon_mgr.add_task_ids"}) }

\* C12: when execution_lost raises a storage failure (DatabaseError) for one
\* execution of the lost node, slaveLost() returns normally, the current task
\* id of that execution, if it has one, is in the reconciliation set at the
\* return, and the callback adds no task id of a sibling whose execution_lost
\* succeeded.
C12_StorageFailureRequeuesOnlyThatTask ==
    ( /\ InSlaveLost
      /\ callback.fault.site = "execution_lost"
      /\ callback.fault.kind = "DatabaseError"
      /\ callback.fault.exe \in LostCalled ) =>
        LET e == callback.fault.exe
        IN  /\ callback.raised = "none"
            /\ ( e \in DOMAIN running_job_exes
                 /\ running_job_exes[e].current_task # Nothing )
               => /\ running_job_exes[e].current_task[1] \in recon_task_ids
                  /\ running_job_exes[e].current_task[1] \in TasksAdded
            /\ TasksAdded \subseteq { JobTaskId(e) }
            /\ recon_task_ids \subseteq callback.recon_before \cup { JobTaskId(e) }

\* Two executions were on the lost node: the storage write failed for one,
\* whose task is now to be reconciled; the other is lost and with cleanup
C12_Witness ==
    /\ InSlaveLost
    /\ callback.fault.site = "execution_lost"
    /\ callback.fault.kind = "DatabaseError"
    /\ LostCalled = JobExeIds
    /\ \E e \in JobExeIds :
           /\ callback.fault.exe = e
           /\ recon_task_ids = { JobTaskId(e) }
           /\ cleanup_job_exes = JobExeIds \ {e}

\* C13: in slaveLost(), an exception raised while one execution of the lost
\* node is handled never keeps the other executions of the node from being
\* handled: whatever was raised for one of them, execution_lost has been
\* called for every other execution the registry reported on the node, and
\* none of those is left finished in the registry.
C13_SiblingsStillHandled ==
    ( /\ InSlaveLost
      /\ callback.node_known
      /\ CallsOf({"running_job_mgr.get_job_exes_on_node"}) # {}
      /\ callback.fault.site \in
             { "none", "execution_lost", "remove_job_exe", "add_job_execution" } ) =>
        \A e \in callback.on_node \ { callback.fault.exe } :
            /\ e \in LostCalled
            /\ e \in DOMAIN running_job_exes => ~ is_finished(running_job_exes[e])

\* C14: slaveLost(agent) removes the agent from the node registry and from
\* the offer manager and then calls execution_lost on every running execution
\* that was on that agent, whatever the state of the execution and whether or
\* not the node registry knew the agent before the removal (no collaborator
\* failing).
C14_EveryExecutionOnAgentLost ==
    ( InSlaveLost /\ callback.fault = NoFault ) =>
        /\ callback.agent_id \notin node_agents
        /\ \E i, j \in 1..Len(callback.calls) :
               /\ i < j
               /\ callback.calls[i].fn = "node_mgr.lost_node"
               /\ callback.calls[j].fn = "offer_mgr.lost_node"
               /\ \A k \in CallsOf({"execution_lost"}) : j < k
        /\ LostCalled = callback.on_node

\* The positions of the handle_job_failure calls in the trace of a callback
FailureCalls(cb) ==
    { i \in 1..Len(cb.calls) : cb.calls[i].fn = "Queue.objects.handle_job_failure" }

\* The callback just run is a registration
InRegistration == callback.name \in { "registered", "reregistered" }

\* C15: at registered and at every reregistered, handle_job_failure is called
\* only for executions that the database reports as running and the registry
\* does not hold, always with the 'scheduler-lost' error and an empty context
\* list, and never twice for one execution; when the registration returns
\* normally it has been called for every such execution, which is then failed
\* with 'scheduler-lost' in the database.
C15_OrphansFailedOnce ==
    [][ callback'.name \in { "registered", "reregistered" } =>
          LET orphans == { e \in DOMAIN job_exe_db :
                               /\ job_exe_db[e].status = "RUNNING"
                               /\ e \notin DOMAIN running_job_exes }
              calls == callback'.calls
              F == FailureCalls(callback')
          IN  /\ \A i \in F : /\ calls[i].exe \in orphans
                              /\ calls[i].error = "scheduler-lost"
                              /\ calls[i].context = << >>
              /\ \A i, j \in F : calls[i].exe = calls[j].exe => i = j
              /\ callback'.raised = "none" =>
                     \A e \in orphans :
                         /\ \E i \in F : calls[i].exe = e
                         /\ job_exe_db'[e] = [status |-> "FAILED", error |-> "scheduler-lost"]
      ]_vars

\* A registration that returned normally after failing both executions
C15_Witness ==
    /\ InRegistration
    /\ callback.raised = "none"
    /\ { callback.calls[i].exe : i \in FailureCalls(callback) } = JobExeIds

\* The executions the database reports as running that the registry lacks
Orphans ==
    { e \in DOMAIN job_exe_db : /\ job_exe_db[e].status = "RUNNING"
                                /\ e \notin DOMAIN running_job_exes }

\* The current task ids of the executions the database reports as running
\* that the registry holds
KnownRunningTaskIds ==
    { running_job_exes[e].current_task[1] :
          e \in { x \in DOMAIN job_exe_db \cap DOMAIN running_job_exes :
                      /\ job_exe_db[x].status = "RUNNING"
                      /\ running_job_exes[x].current_task # Nothing } }

\* The task ids handed to recon_mgr.add_task_ids by the callback just run
TasksSent(cb) ==
    UNION { cb.calls[i].tasks :
                i \in { k \in 1..Len(cb.calls) : cb.calls[k].fn = "recon_mgr.add_task_ids" } }

\* C16 (as stated): a registration that returns normally has added to the
\* reconciliation set the task id of every execution that is running in the
\* database and has no counterpart in the running-execution registry.
C16_OrphanTaskIdsAdded ==
    [][ ( callback'.name \in { "registered", "reregistered" }
          /\ callback'.raised = "none" ) =>
            \A e \in Orphans : JobTaskId(e) \in recon_task_ids' ]_vars

\* C16 (amended): a registration that returns normally adds to the
\* reconciliation set exactly the current task ids of the executions that
\* are running in the database and DO have a counterpart in the registry;
\* for an execution without a counterpart no task id is added.
C16_KnownTaskIdsAdded ==
    [][ ( callback'.name \in { "registered", "reregistered" }
          /\ callback'.raised = "none" ) =>
            /\ TasksSent(callback') = KnownRunningTaskIds
            /\ recon_task_ids' = recon_task_ids \cup KnownRunningTaskIds ]_vars

\* A registration that added the task id of a registry execution and failed
\* an orphaned execution without adding its task id
C16_Witness ==
    /\ InRegistration
    /\ callback.raised = "none"
    /\ TasksSent(callback) # {}
    /\ \E i \in FailureCalls(callback) :
           JobTaskId(callback.calls[i].exe) \notin recon_task_ids

\* The positions in the trace of the callback just run where a driver is
\* assigned to one of its holders
DriverAssignments == { i \in 1..Len(callback.calls) : callback.calls[i].driver # "none" }

\* The positions in the trace of the calls that start a reconciliation of the
\* running jobs
ReconcileStarts == CallsOf({"JobExecution.objects.get_running_job_exes"})

\* C17: after reregistered(driver') the scheduler, the database-sync thread,
\* the reconciliation manager and the scheduling thread all hold driver', and
\* the reconciliation of the running jobs was run once, after all four were
\* given driver'.
C17_HandlesUpdatedThenReconciled ==
    ( callback.name = "reregistered" /\ callback.fault.site # "update_master" ) =>
        \E driver \in Drivers :
            /\ drivers = [controller |-> driver, db_sync |-> driver,
                          recon |-> driver, scheduling |-> driver]
            /\ { callback.calls[i].fn : i \in DriverAssignments } =
                   { "self._driver", "db_sync_thread.driver", "recon_mgr.driver",
                     "scheduling_thread.driver" }
            /\ \A i \in DriverAssignments : callback.calls[i].driver = driver
            /\ Cardinality(ReconcileStarts) = 1
            /\ \A i \in DriverAssignments, j \in ReconcileStarts : i < j
            /\ callback.raised = "none" =>
                   callback.calls[Len(callback.calls)].fn = "recon_mgr.add_task_ids"

\* A re-registration with a new driver that failed an orphaned execution
C17_Witness ==
    /\ callback.name = "reregistered"
    /\ callback.raised = "none"
    /\ drivers.scheduling = "d2"
    /\ FailureCalls(callback) # {}

\* Component-wise comparison of resources
ResLeq(a, b) == a.cpus <= b.cpus /\ a.mem <= b.mem /\ a.disk <= b.disk

\* Thread t leaves the agent block of refresh_agent_resources() in this step
RefreshDone(t) == pc[t] = "refresh_watermark" /\ pc'[t] = "idle"

\* What the cycle of thread t was given for agent a: the offers of its
\* swapped-out batch and the tasks of its argument
Supplied(t, a) ==
    ResAdd(SumOffers(AgentOffers(frame[t].new_offers, a)),
           SumTasks(AgentTasks(frame[t].tasks, a)))

\* C18: under any interleaving of the calls, when a refresh cycle has gone
\* through the agents, the running + offered total of every agent does not
\* exceed (and in fact equals) the sum of the offers and tasks that cycle was
\* given for the agent, whatever earlier cycles had counted.
C18_NoDoubleCounting ==
    [][ \A t \in Threads :
          RefreshDone(t) =>
              \A a \in DOMAIN agent_resources' :
                  LET ar == agent_resources'[a]
                  IN  /\ ResLeq(ResAdd(ar.running, ar.offered), Supplied(t, a))
                      /\ ar.offered = SumOffers(AgentOffers(frame[t].new_offers, a))
                      /\ ar.running = SumTasks(AgentTasks(frame[t].tasks, a)) ]_vars

\* A second refresh cycle has gone over agent a1, which the first cycle had
\* given offers and tasks, and has left it with what the second one supplied
C18_Witness ==
    /\ n_cycles = 2
    /\ \A t \in Threads : pc[t] = "idle"
    /\ "a1" \in DOMAIN agent_resources
    /\ agent_resources["a1"].offered = ZeroResources
    /\ agent_resources["a1"].running # ZeroResources
    /\ \E i \in DOMAIN fate : fate[i].agent_id = "a1" /\ fate[i].cycles = 1

\* The first refresh of a freshly constructed manager leaves the agent block:
\* the only call before it, add_new_offers, stored the batch it works on
FirstRefreshDone(t) ==
    /\ RefreshDone(t)
    /\ serial
    /\ n_calls = 2
    /\ frame[t].new_offers # EmptyMap

\* The entries the first refresh leaves: one for every agent of the batch,
\* offered the sum of the agent's offers, running the sum of its tasks
FirstRefreshEntries(t) ==
    /\ DOMAIN agent_resources' =
           { frame[t].new_offers[k].offer.agent_id : k \in DOMAIN frame[t].new_offers }
    /\ \A a \in DOMAIN agent_resources' :
           /\ agent_resources'[a].offered = SumOffers(AgentOffers(frame[t].new_offers, a))
           /\ agent_resources'[a].running = SumTasks(AgentTasks(frame[t].tasks, a))

\* C19: on a freshly constructed ResourceManager, add_new_offers with offers
\* of unseen agents followed by refresh_agent_resources(tasks) completes
\* normally and leaves for every such agent an entry whose offered is the sum
\* of the agent's offers and whose running is the sum of the resources of
\* the given tasks on the agent.
C19_FreshRefreshCompletes ==
    [][ \A t \in Threads :
          FirstRefreshDone(t) => ret'[t] = "ok" /\ FirstRefreshEntries(t) ]_vars

\* The entries alone, however the call ends
C19_FreshRefreshEntries ==
    [][ \A t \in Threads : FirstRefreshDone(t) => FirstRefreshEntries(t) ]_vars

\* The cycle of thread t reset the watermarks in this step
WatermarkReset(t) == RefreshDone(t) /\ last_watermark_reset' # last_watermark_reset

\* The time the reset period is counted from: the last reset, or the
\* construction of the manager while there has been none
PeriodStart == IF last_watermark_reset = Nothing THEN 0 ELSE last_watermark_reset[1]

\* Between resets the range of every agent only widens; a reset sets min and
\* max to the current total and comes no sooner than the period after the
\* one before
C20_WatermarkOnlyWidens ==
    [][ \A t \in Threads :
          /\ ~ WatermarkReset(t) =>
                 \A a \in DOMAIN agent_resources \cap DOMAIN agent_resources' :
                     /\ ResLeq(agent_resources'[a].watermark.min,
                               agent_resources[a].watermark.min)
                     /\ ResLeq(agent_resources[a].watermark.max,
                               agent_resources'[a].watermark.max)
          /\ WatermarkReset(t) =>
                 /\ \A a \in DOMAIN agent_resources' :
                        LET ar == agent_resources'[a]
                            total == ResAdd(ar.running, ar.offered)
                        IN  ar.watermark = [min |-> total, max |-> total]
                 /\ last_watermark_reset # Nothing =>
                        frame[t].when >= last_watermark_reset[1] + WATERMARK_RESET_PERIOD
      ]_vars

ExpectedTransition(state) ==
    CASE state = TASK_RUNNING -> "task_start"
      [] state = TASK_FINISHED -> "task_complete"
      [] state = TASK_LOST -> "task_lost"
      [] state \in {TASK_ERROR, TASK_FAILED, TASK_KILLED} -> "task_fail"
      [] OTHER -> "none"

\* The statusUpdate() just run was for the task of a job execution that the
\* registry held, and nothing raised before the update was applied
KnownExeUpdated ==
    /\ InStatusUpdate
    /\ ~ IsCleanupTaskId(TheStatus.task_id)
    /\ TheJobExe \in callback.known
    /\ callback.fault.site \notin { "remove_task_id", "add_status_update", "get_job_exe" }

\* C21: for a known running execution statusUpdate() calls exactly the
\* transition of the reported state, on that execution: task_start for
\* RUNNING, task_complete for FINISHED, task_lost for LOST, task_fail for
\* ERROR, FAILED and KILLED; never more than one transition per update, and
\* none for any other state.
C21_StateToTransition ==
    KnownExeUpdated =>
        LET T == CallsOf(TransitionCalls)
            expected == ExpectedTransition(TheStatus.state)
        IN  /\ Cardinality(T) <= 1
            /\ expected = "none" => T = {}
            /\ expected # "none" =>
                   \E i \in T : /\ callback.calls[i].fn = expected
                                 /\ callback.calls[i].exe = TheJobExe

\* A KILLED update has failed a running execution
C21_Witness ==
    /\ KnownExeUpdated
    /\ TheStatus.state = TASK_KILLED
    /\ callback.raised = "none"
    /\ TheJobExe \in cleanup_job_exes
    /\ job_exe_db[TheJobExe].error = "task-failed"

\* The executions the callback just run called a transition on
Transitioned == { callback.calls[i].exe : i \in CallsOf(TransitionCalls) }

\* The positions of the trace that call fn for execution e
CallsFor(fn, e) == { i \in CallsOf({fn}) : callback.calls[i].exe = e }

\* No execution the callback called a transition on is left finished in the
\* registry; every execution the callback took out of the registry was
\* removed once and given to cleanup once, and after a statusUpdate() the
\* task id of the status is not in the reconciliation set
FinishedAreCleanedUp ==
    /\ \A e \in Transitioned \cap DOMAIN running_job_exes :
           ~ is_finished(running_job_exes[e])
    /\ \A e \in callback.known \ DOMAIN running_job_exes :
           /\ Cardinality(CallsFor("running_job_mgr.remove_job_exe", e)) = 1
           /\ Cardinality(CallsFor("cleanup_mgr.add_job_execution", e)) = 1
           /\ e \in cleanup_job_exes
           /\ InStatusUpdate => TheStatus.task_id \notin recon_task_ids

C23_ResetIffPeriodElapsed ==
    [][ \A t \in Threads :
          RefreshDone(t) =>
              /\ ret'[t] = "ok"
              /\ last_watermark_reset # Nothing =>
                     ( WatermarkReset(t) <=>
                           frame[t].when > last_watermark_reset[1] + WATERMARK_RESET_PERIOD )
              /\ IF WatermarkReset(t)
                 THEN last_watermark_reset' = Some(frame[t].when)
                 ELSE last_watermark_reset' = last_watermark_reset
      ]_vars

\* The positions of a call inside a block under the agent lock
AgentBlockLabels ==
    { "lost_agent_agents", "remove_offers_agents", "refresh_agents",
      "refresh_watermark", "set_agent_shortages", "generate_status_json" }

\* A step by which thread u enters a block under the agent lock, or a step
\* of u inside such a block: the steps that read or change the agent map
AgentStep(u) ==
    \/ lost_agent_lock_agents(u) \/ lost_agent_delete(u)
    \/ remove_offers_lock_agents(u) \/ remove_offers_agents(u)
    \/ refresh_lock_agents(u) \/ refresh_agents(u) \/ refresh_watermark(u)
    \/ \E sh \in ShortageMaps : set_agent_shortages_lock(u, sh)
    \/ set_agent_shortages_apply(u)
    \/ \E nodes \in NodeLists : generate_status_json_lock(u, nodes)
    \/ generate_status_json_fold(u)

\* C24: between the refresh of the agents and the watermark reset of one
\* cycle the thread of the cycle holds the agent lock, no other thread is
\* inside a block under that lock, and no other thread can take a step that
\* reads or changes the agent map (generate_status_json, remove_offers,
\* lost_agent, set_agent_shortages, another refresh).
C24_RefreshAndResetInOneSection ==
    \A t \in Threads :
        pc[t] = "refresh_watermark" =>
            /\ agent_resources_lock = t
            /\ \A u \in Threads \ {t} :
                   /\ pc[u] \notin AgentBlockLabels
                   /\ ~ ENABLED AgentStep(u)

\* A cycle has refreshed the agents and not yet tested the reset period,
\* while a remove_offers() on the other thread waits for the agent lock
C24_Witness ==
    \E t, u \in Threads :
        /\ pc[t] = "refresh_watermark"
        /\ agent_resources # EmptyMap
        /\ pc[u] = "remove_offers_wait"

\* Thread t leaves the block of remove_offers() under the offer lock, and
\* the one under the agent lock (where the call returns), in this step
RemovePendingDone(t) == pc[t] = "remove_offers_offers" /\ pc'[t] = "remove_offers_wait"
RemoveOffersDone(t) == pc[t] = "remove_offers_agents" /\ pc'[t] = "idle"

\* C25: with one call at a time, remove_offers(ids) takes exactly the offers
\* with an id in ids out of the pending buffer and out of the offers every
\* agent has absorbed in an earlier refresh: when it returns no such offer is
\* pending or held by an agent, the offered total of every agent is the sum
\* of the offers it keeps, and the offers with other ids, the agents and
\* what they run are as before.
C25_RemoveOffersEverywhere ==
    [][ \A t \in Threads :
          /\ RemovePendingDone(t) =>
                 new_offers' = Without(new_offers, frame[t].offer_ids)
          /\ RemoveOffersDone(t) =>
                 /\ DOMAIN new_offers' \cap frame[t].offer_ids = {}
                 /\ DOMAIN agent_resources' = DOMAIN agent_resources
                 /\ \A a \in DOMAIN agent_resources :
                        LET before == agent_resources[a]
                            after == agent_resources'[a]
                        IN  /\ after.offers = Without(before.offers, frame[t].offer_ids)
                            /\ after.offered = SumOffers(after.offers)
                            /\ after.running = before.running
                 /\ ret'[t] = "ok"
      ]_vars

\* After remove_offers({"o1"}) agent a1, which had absorbed the offers o1 and
\* o2 in a refresh, holds o2 only
C25_Witness ==
    /\ serial
    /\ \A t \in Threads : pc[t] = "idle"
    /\ "a1" \in DOMAIN agent_resources
    /\ DOMAIN agent_resources["a1"].offers = { "o2" }
    /\ agent_resources["a1"].offered = NodeResources(1, 256, 5)
    /\ \E i \in DOMAIN fate :
           fate[i].id = "o1" /\ fate[i].agent_id = "a1" /\ fate[i].cycles = 1

\* Thread t stores its batch and returns from add_new_offers() in this step
AddOffersDone(t) == pc[t] = "add_new_offers" /\ pc'[t] = "idle"

\* The positions of the batch that hold an offer with the id
BatchPositions(offers, id) == { i \in 1..Len(offers) : offers[i].id = id }

\* The greatest of a non-empty set of numbers
Greatest(S) == CHOOSE x \in S : \A y \in S : y <= x

\* C26: under any interleaving, add_new_offers(batch) leaves a buffer keyed
\* by offer id that holds, for every id of the batch, the last offer of the
\* batch with that id (also when the id was pending before or comes twice in
\* the batch), and for every other id what was pending before, nothing else.
C26_LastWriteWins ==
    [][ \A t \in Threads :
          AddOffersDone(t) =>
              LET offers == frame[t].offers
                  ids == { offers[i].id : i \in 1..Len(offers) }
              IN  /\ DOMAIN new_offers' = DOMAIN new_offers \cup ids
                  /\ \A id \in ids :
                         new_offers'[id].offer =
                             offers[Greatest(BatchPositions(offers, id))]
                  /\ \A id \in DOMAIN new_offers \ ids :
                         new_offers'[id] = new_offers[id]
      ]_vars

\* The offer o1 of agent a1 was replaced in the buffer by the later offer o1
\* of agent a2, next to the pending offer o2
C26_Witness ==
    /\ DOMAIN new_offers = { "o1", "o2" }
    /\ new_offers["o1"].offer.agent_id = "a2"
    /\ \E i \in DOMAIN fate :
           /\ fate[i].id = "o1" /\ fate[i].agent_id = "a1"
           /\ fate[i].superseded /\ fate[i].cycles = 0

\* Thread t writes the report and returns from generate_status_json() in
\* this step
StatusDone(t) == pc[t] = "generate_status_json" /\ pc'[t] = "idle"

\* The sums of running, offered and watermark over the agents in S
RECURSIVE SumOver(_, _)
SumOver(agents, S) ==
    IF S = {} THEN [running |-> ZeroResources, offered |-> ZeroResources,
                    watermark |-> ZeroResources]
    ELSE LET a == CHOOSE x \in S : TRUE
             rest == SumOver(agents, S \ {a})
         IN  [running |-> ResAdd(agents[a].running, rest.running),
              offered |-> ResAdd(agents[a].offered, rest.offered),
              watermark |-> ResAdd(agents[a].watermark.max, rest.watermark)]

NamedScalar(resources, name) ==
    LET at == { k \in 1..Len(resources) : resources[k][1] = name }
    IN  IF at = {} THEN 0 ELSE resources[Greatest(at)][2]

\* The agents of the offers a resourceOffers callback was handed
OfferingAgents == { callback.offers[i].slave_id : i \in 1..Len(callback.offers) }

\* The positions of the hand-over of the offers in the callback's trace
HandOvers == CallsOf({ "offer_mgr.add_new_offers" })

\* C28: resourceOffers hands over one ResourceOffer per Mesos offer, in the
\* order of the offers, with the offer's id and agent and with the cpus, mem
\* and disk its resource list names (0 for a name it does not have); the
\* hand-over comes after a call that registered all the offering agents with
\* the node registry, which knows them when the offers are handed over; and a
\* callback that returns normally has handed the offers over.
C28_ConvertedRegisteredThenHanded ==
    callback.name = "resourceOffers" =>
        /\ \A j \in HandOvers :
              LET handed == callback.calls[j].offers
              IN  /\ Len(handed) = Len(callback.offers)
                  /\ \A i \in 1..Len(handed) :
                        LET offer == callback.offers[i]
                        IN  /\ handed[i].id = offer.id
                            /\ handed[i].agent_id = offer.slave_id
                            /\ handed[i].resources.cpus = NamedScalar(offer.resources, "cpus")
                            /\ handed[i].resources.mem = NamedScalar(offer.resources, "mem")
                            /\ handed[i].resources.disk = NamedScalar(offer.resources, "disk")
                  /\ \E r \in CallsOf({ "node_mgr.register_agent_ids" }) :
                        /\ r < j
                        /\ callback.calls[r].agent_ids = OfferingAgents
                  /\ OfferingAgents \subseteq node_agents
        /\ callback.raised = "none" => Cardinality(HandOvers) = 1

\* Two offers of two agents the node registry did not know, one with a resource
\* list that names none of cpus, mem and disk and one that names "ports" and
\* no mem, were handed over
C28_Witness ==
    /\ callback.name = "resourceOffers"
    /\ callback.raised = "none"
    /\ Len(callback.offers) = 2
    /\ callback.offers[2].resources = << >>
    /\ \E k \in 1..Len(callback.offers[1].resources) :
          callback.offers[1].resources[k][1] = "ports"
    /\ HandOvers # {}
    /\ \A j \in HandOvers : callback.calls[j].offers[1].resources = NodeResources(1, 0, 5)
    /\ OfferingAgents = { "a1", "a2" }
    /\ OfferingAgents \subseteq node_agents

(***************************************************************************)
(* C29: a cleanup task's status goes to the cleanup manager alone          *)
(***************************************************************************)
\* The step is a statusUpdate for a task id with the cleanup prefix
CleanupUpdateDelivered ==
    /\ callback = NoCallback
    /\ callback'.name = "statusUpdate"
    /\ IsCleanupTaskId(callback'.status[1].task_id)

\* C29: a statusUpdate for a cleanup task id calls recon_mgr.remove_task_id
\* for the id and then, unless that raised, cleanup_mgr.handle_task_update for
\* the id, and calls nothing else: no registry lookup, no transition, no
\* handle_job_failure, no add_task_ids. It leaves the running-execution
\* registry and the stored executions as they were, adds nothing to the
\* reconciliation set, and the id is not in the set afterwards.
C29_CleanupUpdateOnlyToCleanup ==
    [][ CleanupUpdateDelivered =>
          LET id == callback'.status[1].task_id
              calls == callback'.calls
              removed == callback'.fault.site # "remove_task_id"
          IN  /\ Len(calls) = IF removed THEN 2 ELSE 1
              /\ calls[1].fn = "recon_mgr.remove_task_id"
              /\ calls[1].task = id
              /\ removed => /\ calls[2].fn = "cleanup_mgr.handle_task_update"
                             /\ calls[2].task = id
                             /\ calls[2].state = callback'.status[1].state
                             /\ id \notin recon_task_ids'
              /\ running_job_exes' = running_job_exes
              /\ job_exe_db' = job_exe_db
              /\ recon_task_ids' \subseteq recon_task_ids
      ]_vars

\* A cleanup task's status was handled, without failure, while the registry
\* held an execution and the reconciliation set a task id
C29_Witness ==
    /\ callback.name = "statusUpdate"
    /\ IsCleanupTaskId(callback.status[1].task_id)
    /\ callback.raised = "none"
    /\ Len(callback.calls) = 2
    /\ callback.known # {}
    /\ callback.recon_before # {}
    /\ recon_task_ids = callback.recon_before

(***************************************************************************)
(* C30: remove_offers() against a refresh that holds the swapped buffer    *)
(***************************************************************************)
\* No call of the resource manager is in progress
AllReturned == \A t \in Threads : pc[t] = "idle"

\* The objects the agents count as offered
AbsorbedObjs == UNION { ObjsOf(agent_resources[a].offers) : a \in DOMAIN agent_resources }

\* C30 (as stated): once remove_offers() and every refresh that ran beside it
\* are over, an offer that remove_offers() was to remove is neither pending
\* nor among the offers of any agent.
C30_RescindedOfferGone ==
    AllReturned =>
        \A i \in DOMAIN fate :
            fate[i].rescinded => /\ i \notin ObjsOf(new_offers)
                                 /\ i \notin AbsorbedObjs

\* What holds of the pending buffer alone: an offer that remove_offers() was
\* to remove is not pending once the call has returned.
C30_RescindedOfferNotPending ==
    \A i \in DOMAIN fate : fate[i].rescinded => i \notin ObjsOf(new_offers)

(***************************************************************************)
(* C31: a status update for an execution that is already over              *)
(***************************************************************************)
\* An earlier status update or slaveLost has ended execution e: durable
\* storage holds its final outcome, it has been removed from the registry and
\* handed to the cleanup manager
AlreadyOver(e) ==
    /\ e \in DOMAIN job_exe_db
    /\ job_exe_db[e].status # "RUNNING"
    /\ e \notin DOMAIN running_job_exes
    /\ e \in cleanup_job_exes

\* The step is a statusUpdate for the task of execution e
StatusDeliveredFor(e) ==
    /\ callback = NoCallback
    /\ callback'.name = "statusUpdate"
    /\ ~ IsCleanupTaskId(callback'.status[1].task_id)
    /\ get_job_exe_id(callback'.status[1].task_id) = e

\* C31 (as stated): a status update for the task of an execution that is
\* already over does not call handle_job_failure and leaves the stored outcome
\* of the execution as it was.
C31_LateUpdateLeavesOutcome ==
    [][ \A e \in JobExeIds :
          ( StatusDeliveredFor(e) /\ AlreadyOver(e) ) =>
              /\ FailureCalls(callback') = {}
              /\ job_exe_db'[e] = job_exe_db[e]
      ]_vars

\* What holds of such an update: the registry is left as it was and no
\* transition is applied
C31_LateUpdateLeavesRegistry ==
    [][ \A e \in JobExeIds :
          ( StatusDeliveredFor(e) /\ AlreadyOver(e) ) =>
              /\ running_job_exes' = running_job_exes
              /\ \A i \in 1..Len(callback'.calls) :
                    callback'.calls[i].fn \notin TransitionCalls
      ]_vars

(***************************************************************************)
(* registered() step by step, beside the scheduling worker it has started  *)
(***************************************************************************)
\* What durable storage holds when the process starts: the executions an
\* earlier process left running or completed
StoredOutcomes ==
    { [e \in S |-> [status |-> st[e], error |-> "none"]] :
          S \in SUBSET JobExeIds, st \in [JobExeIds -> { "RUNNING", "COMPLETED" }] }

InitRegistration ==
    /\ InitManager
    /\ InitEnvironment
    /\ serial = FALSE
    /\ drivers = NoDrivers
    /\ recon_task_ids = {}
    /\ running_job_exes = EmptyMap
    /\ cleanup_job_exes = {}
    /\ job_exe_db \in StoredOutcomes
    /\ node_agents = {}
    /\ callback = NoCallback

\* registered(), up to the start of the four background threads
registered_start(driver) ==
    /\ registration.pc = "none"
    /\ drivers.controller = None
    /\ LET c1 == SetDriver(Ctx, "controller", "self._driver", driver)
           c2 == SetDriver(c1, "recon", "recon_mgr.driver", driver)
           c3 == SetDriver(c2, "db_sync", "DatabaseSyncThread", driver)
           c4 == SetDriver(c3, "scheduling", "SchedulingThread", driver)
       IN  drivers' = c4.drivers
    /\ registration' = [registration EXCEPT !.pc = "started"]
    /\ UNCHANGED << rm_vars, recon_task_ids, running_job_exes, cleanup_job_exes,
                    job_exe_db, node_agents, callback, n_callbacks, mesos_tasks,
                    in_flight, recon_round >>

\* job_exes = JobExecution.objects.get_running_job_exes()
reconcile_query(order) ==
    /\ registration.pc = "started"
    /\ registration' = [registration EXCEPT !.pc = "loop",
                                            !.todo = RunningInDb(job_exe_db, order)]
    /\ UNCHANGED << rm_vars, sched_vars, n_callbacks, mesos_tasks, in_flight,
                    recon_round >>

\* one turn of the loop: get_job_exe(job_exe.id), then the task id is kept or
\* the execution is failed
reconcile_step ==
    /\ registration.pc = "loop"
    /\ registration.todo # << >>
    /\ LET e == Head(registration.todo)
           done == ReconcileLoop(Ctx, << e >>, registration.task_ids, NoFault)
       IN  /\ job_exe_db' = done[1].db
           /\ registration' =
                  [registration EXCEPT
                       !.todo = Tail(@),
                       !.task_ids = done[2],
                       !.failed = @ \cup { done[1].calls[i].exe :
                                               i \in FailureCalls(done[1]) }]
    /\ UNCHANGED << rm_vars, recon_task_ids, running_job_exes, cleanup_job_exes,
                    node_agents, drivers, callback, n_callbacks, mesos_tasks,
                    in_flight, recon_round >>

\* recon_mgr.add_task_ids(task_ids), and registered() returns
reconcile_send ==
    /\ registration.pc = "loop"
    /\ registration.todo = << >>
    /\ recon_task_ids' = recon_task_ids \cup registration.task_ids
    /\ registration' = [registration EXCEPT !.pc = "returned"]
    /\ UNCHANGED << rm_vars, running_job_exes, cleanup_job_exes, job_exe_db,
                    node_agents, drivers, callback, n_callbacks, mesos_tasks,
                    in_flight, recon_round >>

\* The scheduling worker, once started, launches a queued execution: durable
\* storage records it as running
worker_schedule(e) ==
    /\ drivers.scheduling # None
    /\ registration.launching = None
    /\ e \notin DOMAIN job_exe_db
    /\ job_exe_db' = Put(job_exe_db, e, [status |-> "RUNNING", error |-> "none"])
    /\ registration' = [registration EXCEPT !.launching = e,
                                            !.launched = @ \cup {e}]
    /\ UNCHANGED << rm_vars, recon_task_ids, running_job_exes, cleanup_job_exes,
                    node_agents, drivers, callback, n_callbacks, mesos_tasks,
                    in_flight, recon_round >>

\* ... and then the worker adds the execution to the registry
worker_add(a) ==
    /\ registration.launching # None
    /\ running_job_exes' = Put(running_job_exes, registration.launching,
                               RunningJobExecution(registration.launching, a))
    /\ registration' = [registration EXCEPT !.launching = None]
    /\ UNCHANGED << rm_vars, recon_task_ids, cleanup_job_exes, job_exe_db,
                    node_agents, drivers, callback, n_callbacks, mesos_tasks,
                    in_flight, recon_round >>

RegistrationNext ==
    \/ registered_start("d1")
    \/ \E order \in ExeOrders : reconcile_query(order)
    \/ reconcile_step
    \/ reconcile_send
    \/ \E e \in JobExeIds : worker_schedule(e)
    \/ \E a \in AgentIds : worker_add(a)

SpecRegistration == InitRegistration /\ [][RegistrationNext]_vars

C32_FailedWereReportedRunning ==
    /\ \A e \in registration.failed :
          /\ e \in DOMAIN job_exe_db
          /\ job_exe_db[e].status \in { "FAILED", "RUNNING" }
    /\ registration.pc = "none" => registration.failed = {}

(***************************************************************************)
(* The lifecycle callbacks in every lifecycle state                        *)
(***************************************************************************)
\* self._db_sync_thread, self._recon_thread, self._scheduling_thread and
\* self._status_thread are None until registered() has created them
ThreadsCreated(c) == c.drivers.db_sync # None

\* an attribute of None is read or set
AttributeError(c) == [c EXCEPT !.exc = "AttributeError"]

\* reregistered(driver, masterInfo) in any lifecycle state: the assignment
\* self._db_sync_thread.driver = self._driver fails while there is no thread
reregistered_any_run(c, driver, order) ==
    LET c1 == SetDriver(c, "controller", "self._driver", driver)
        u  == [c1 EXCEPT !.calls = Append(@, Called("Scheduler.objects.update_master"))]
    IN  IF ThreadsCreated(u)
        THEN reregistered_run(c, driver, order, NoFault)
        ELSE AttributeError(u)

lifecycle_reregistered(driver, order) ==
    /\ callback = NoCallback
    /\ n_callbacks < MaxCallbacks
    /\ LET c == reregistered_any_run(Ctx, driver, order)
       IN  Finish("reregistered", c, c, NoFault, Nothing, None)
    /\ Delivered

\* The threads shutdown() signals, in the order of its calls
ShutdownCalls ==
    << "_db_sync_thread.shutdown", "_recon_thread.shutdown",
       "_scheduling_thread.shutdown", "_status_thread.shutdown" >>

\* shutdown(): self._db_sync_thread.shutdown() and so on; nothing is joined
shutdown_run(c) ==
    IF ThreadsCreated(c)
    THEN [c EXCEPT !.calls = @ \o [i \in 1..Len(ShutdownCalls) |-> Called(ShutdownCalls[i])]]
    ELSE AttributeError(c)

shutdown ==
    /\ callback = NoCallback
    /\ n_callbacks < MaxCallbacks
    /\ LET c == shutdown_run(Ctx)
       IN  Finish("shutdown", c, c, NoFault, Nothing, None)
    /\ Delivered

LifecycleNext ==
    \/ \E order \in ExeOrders : registered("d1", order, NoFault)
    \/ \E driver \in Drivers, order \in ExeOrders : lifecycle_reregistered(driver, order)
    \/ shutdown
    \/ \E offers \in MesosOfferLists : resourceOffers(offers, NoFault)
    \/ \E e \in JobExeIds, a \in AgentIds : schedule_launch(e, a)
    \/ scheduler_restart
    \/ callback_return

SpecLifecycle == Init /\ [][LifecycleNext]_vars

(***************************************************************************)
(* C33: shutdown() and reregistered() before and after registered()        *)
(***************************************************************************)
\* The last callback was shutdown() or reregistered() in a process whose
\* registered() has not created the threads (neither callback creates them)
BeforeRegistered ==
    /\ callback.name \in { "shutdown", "reregistered" }
    /\ drivers.db_sync = None

\* C33 (as stated): shutdown() and reregistered() invoked before any
\* registered() complete without raising, and shutdown() after registered()
\* signals each of the four background threads to stop, and does nothing
\* else.
C33_LifecycleCallbacksSafe ==
    /\ BeforeRegistered => callback.raised = "none"
    /\ ( callback.name = "shutdown" /\ drivers.db_sync # None ) =>
           /\ callback.raised = "none"
           /\ [i \in 1..Len(callback.calls) |-> callback.calls[i].fn] = ShutdownCalls

\* The part that holds: shutdown() after registered() signals the four
\* threads, returns normally and changes nothing of the managers' state
C33_ShutdownSignalsWorkers ==
    ( callback.name = "shutdown" /\ drivers.db_sync # None ) =>
        /\ callback.raised = "none"
        /\ { callback.calls[i].fn : i \in 1..Len(callback.calls) } =
               { "_db_sync_thread.shutdown", "_recon_thread.shutdown",
                 "_scheduling_thread.shutdown", "_status_thread.shutdown" }
        /\ Len(callback.calls) = 4
        /\ ~ callback.diverged

(***************************************************************************)
(* C34: the tasks a refresh cycle is given                                 *)
(***************************************************************************)
\* Thread t creates and refreshes the agents in this step
AgentsRefreshed(t) == pc[t] = "refresh_agents" /\ pc'[t] = "refresh_watermark"

\* The agents of the tasks thread t's refresh was called with
TaskAgents(t) == { x.agent_id : x \in frame[t].tasks }

\* The tasks of agent a among those thread t's refresh was called with
TasksOn(t, a) == { x \in frame[t].tasks : x.agent_id = a }

\* The agents with an offer in the buffer thread t's refresh swapped out
BatchAgents(t) ==
    { frame[t].new_offers[k].offer.agent_id : k \in DOMAIN frame[t].new_offers }

\* C34 (as stated): after the agents are refreshed, every agent of a task of
\* the tasks argument has an entry whose running total is the sum of its
\* tasks, also when it had no entry before the cycle.
C34_EveryTaskAccounted ==
    [][ \A t \in Threads :
          AgentsRefreshed(t) =>
              \A a \in TaskAgents(t) :
                  /\ a \in DOMAIN agent_resources'
                  /\ agent_resources'[a].running = SumTasks(TasksOn(t, a))
      ]_vars

\* C34 (amended): after the agents are refreshed, the running total of every
\* agent that has an entry is the sum of its tasks in the tasks argument; an
\* agent has an entry exactly when it had one before or the swapped buffer
\* holds an offer of it, so the tasks of an agent with neither are dropped.
C34_TasksOfTrackedAgentsAccounted ==
    [][ \A t \in Threads :
          AgentsRefreshed(t) =>
              /\ DOMAIN agent_resources' = DOMAIN agent_resources \cup BatchAgents(t)
              /\ \A a \in DOMAIN agent_resources' :
                    agent_resources'[a].running = SumTasks(TasksOn(t, a))
      ]_vars

\* A refresh was given the tasks of a1 and a2, a1 had an offer and a2 had
\* neither an offer nor an entry: a1 counts its task and a2 has no entry
C34_Witness ==
    \E t \in Threads :
        /\ pc[t] = "refresh_watermark"
        /\ TaskAgents(t) = { "a1", "a2" }
        /\ BatchAgents(t) = { "a1" }
        /\ DOMAIN agent_resources = { "a1" }
        /\ agent_resources["a1"].running = SumTasks(TasksOn(t, "a1"))
        /\ agent_resources["a1"].running # ZeroResources

(***************************************************************************)
(* Concurrent refreshes while time passes                                  *)
(***************************************************************************)
\* Time passes, also while a refresh is between when = now() and the agent
\* lock
clock_tick ==
    /\ clock < MaxClock
    /\ clock' = clock + 1
    /\ UNCHANGED << sched_vars, env_vars,
                    agent_resources, agent_resources_lock, last_watermark_reset,
                    new_offers, new_offers_lock, pc, frame, ret, status_dict,
                    n_calls, n_cycles, fate, lost_returned, status_lost, serial >>

ClockedNext ==
    \/ \E t \in Threads, offers \in OfferBatches : add_new_offers_lock(t, offers)
    \/ \E t \in Threads : add_new_offers_store(t)
    \/ \E t \in Threads, tasks \in TaskLists : refresh_lock_offers(t, tasks)
    \/ \E t \in Threads : refresh_swap(t)
    \/ \E t \in Threads : refresh_lock_agents(t)
    \/ \E t \in Threads : refresh_agents(t)
    \/ \E t \in Threads : refresh_watermark(t)
    \/ clock_tick

SpecClocked == Init /\ [][ClockedNext]_vars

(***************************************************************************)
(* C35: the recorded watermark-reset timestamp                             *)
(***************************************************************************)
\* C35: every value written to the last-reset timestamp is more than
\* WATERMARK_RESET_PERIOD later than the value it replaces.
C35_ResetsAdvance ==
    [][ last_watermark_reset' # last_watermark_reset =>
          /\ last_watermark_reset' # Nothing
          /\ last_watermark_reset # Nothing =>
                 last_watermark_reset'[1] > last_watermark_reset[1] + WATERMARK_RESET_PERIOD
      ]_vars

\* No reset is ever recorded: the timestamp stays None, whatever the
\* interleaving and however much time passes
C35_NoResetRecorded == last_watermark_reset = Nothing

\* Two refreshes are under way, and the one that read the time first has not
\* yet reached the test of the reset period when the other one reaches it
C35_StaleTimeHeld ==
    \E t, u \in Threads :
        /\ pc[t] = "refresh_wait"
        /\ pc[u] = "refresh_watermark"
        /\ frame[t].when + WATERMARK_RESET_PERIOD < frame[u].when

=============================================================================
